---- MODULE Spec2Model ----
(***************************************************************************)
(* Weather-analysis tool pipeline of the supply-chain agent                *)
(* (supply_chain/tools/analyse_weather_toolkit.py): the five tools of      *)
(* AnalyseWeatherToolkit acting on one session's tool_context.state, and   *)
(* its demand forecast tool (supply_chain/tools/demand_forecast.py).       *)
(*                                                                         *)
(* Spec runs the tools of one session one whole call at a time.            *)
(* SpecSessions runs two sessions on the shared toolkit instance, the two  *)
(* coroutines one await at a time.                                         *)
(* SpecInterleaved runs one session whose Load Dataset and Filter Dataset  *)
(* calls may run while its Render Charts coroutine is suspended.           *)
(* SpecForecast runs the demand forecast tool.                             *)
(*                                                                         *)
(* Timestamps (pd.Timestamp) are integers counting hours since             *)
(* 1970-01-01 00:00; the strings the tools exchange and store              *)
(* ("2025-01-13 12:00:00") are tuples <<year, month, day, hour>>.          *)
(* pd.to_datetime and strftime/astype(str) are the proleptic Gregorian     *)
(* conversions between the two.                                            *)
(***************************************************************************)
EXTENDS Integers, Sequences, FiniteSets, TLC

VARIABLES
    geo_maps_api_key,   \* self.geo_maps_api_key: TRUE when a key is configured
    current_date,       \* pd.Timestamp.now().normalize(), in hours since epoch
    state,              \* tool_context.state of the session (a dict)
    artifacts,          \* the session's artifact store: filename -> content
    sessions,           \* several sessions side by side: for each its
                        \* tool_context.state, its artifact store and the
                        \* coroutine it has suspended at an await, if any
    figures,            \* matplotlib.pyplot's open figures, the current one last
    bigquery_client,    \* demand_forecast.bigquery_client: FALSE when it is None
    pre,                \* tool_context.state as it was when the last call began
    last                \* the last tool call: arguments, external calls, outcome

vars == <<geo_maps_api_key, current_date, state, artifacts, sessions, figures,
          bigquery_client, pre, last>>

(***************************************************************************)
(* Bounds                                                                  *)
(***************************************************************************)
\* how many of the hours of AllHours the weather service has data for
MaxHours == 4

\* how many pyplot figures can be open at a time
MaxFigures == 2

(***************************************************************************)
(* Calendar: pd.to_datetime / strftime / dt.normalize / dt.month ...       *)
(***************************************************************************)
\* days since 1970-01-01 of the civil date y-m-d
DaysFromCivil(y, m, d) ==
    LET yy  == IF m <= 2 THEN y - 1 ELSE y
        era == yy \div 400
        yoe == yy - era * 400
        mp  == IF m > 2 THEN m - 3 ELSE m + 9
        doy == (153 * mp + 2) \div 5 + d - 1
        doe == yoe * 365 + yoe \div 4 - yoe \div 100 + doy
    IN  era * 146097 + doe - 719468

\* the civil date <<y, m, d>> of a day number
CivilFromDays(z) ==
    LET zz  == z + 719468
        era == zz \div 146097
        doe == zz - era * 146097
        yoe == (doe - doe \div 1460 + doe \div 36524 - doe \div 146096) \div 365
        doy == doe - (365 * yoe + yoe \div 4 - yoe \div 100)
        mp  == (5 * doy + 2) \div 153
        d   == doy - (153 * mp + 2) \div 5 + 1
        m   == IF mp < 10 THEN mp + 3 ELSE mp - 9
        y   == yoe + era * 400
    IN  <<IF m <= 2 THEN y + 1 ELSE y, m, d>>

\* an unparseable timestamp string
BadTime == <<0, 0, 0, 0>>

\* pd.to_datetime accepts the string
Parseable(s) ==
    /\ s # BadTime
    /\ s[2] \in 1..12 /\ s[3] \in 1..31 /\ s[4] \in 0..23
    /\ CivilFromDays(DaysFromCivil(s[1], s[2], s[3])) = <<s[1], s[2], s[3]>>

\* pd.to_datetime(s) of a parseable string
to_datetime(s) == DaysFromCivil(s[1], s[2], s[3]) * 24 + s[4]

\* ts.astype(str): "%Y-%m-%d %H:%M:%S"
astype_str(ts) ==
    LET c == CivilFromDays(ts \div 24) IN <<c[1], c[2], c[3], ts % 24>>

\* ts.strftime('%Y-%m-%d'): the date string, hour dropped
strftime_date(ts) ==
    LET c == CivilFromDays(ts \div 24) IN <<c[1], c[2], c[3], 0>>

\* ts.normalize(): floor to midnight
normalize(ts) == (ts \div 24) * 24

dt_year(ts)  == CivilFromDays(ts \div 24)[1]
dt_month(ts) == CivilFromDays(ts \div 24)[2]
dt_day(ts)   == CivilFromDays(ts \div 24)[3]
dt_hour(ts)  == ts % 24


(***************************************************************************)
(* Python values                                                           *)
(***************************************************************************)
\* None, as the value of an omitted end_time
None == <<>>

\* dict[key] = value
Put(d, k, v) == [x \in DOMAIN d \cup {k} |-> IF x = k THEN v ELSE d[x]]

\* the empty dict
EmptyDict == [x \in {} |-> 0]

\* the outcome of one tool call: the context it leaves, what it returns (or
\* the exception that escapes it) and the external calls it made, in order
Outcome(st, res, calls) ==
    [state |-> st, result |-> res, raised |-> "", calls |-> calls]

Escapes(st, exc, calls) ==
    [state |-> st, result |-> [status |-> "none"], raised |-> exc, calls |-> calls]

(***************************************************************************)
(* get_lat_long_from_address                                               *)
(***************************************************************************)
\* Google Maps: status OK and results[0]["geometry"]["location"] has lat, lng
GoogleLocated(resp) ==
    /\ resp.kind = "json"
    /\ "status" \in DOMAIN resp.data
    /\ resp.data.status = "OK"
    /\ "results" \in DOMAIN resp.data
    /\ Len(resp.data.results) > 0
    /\ "geometry" \in DOMAIN resp.data.results[1]
    /\ {"lat", "lng"} \subseteq DOMAIN resp.data.results[1].geometry.location

\* Open-Meteo geocoding: "results" in data and data["results"]
OpenMeteoHasResults(resp) ==
    /\ "results" \in DOMAIN resp.data
    /\ Len(resp.data.results) > 0

\* 2. Fallback to Open-Meteo Geocoding API
open_meteo_geocoding(st, address, resp, calls) ==
    LET made == Append(calls, [to |-> "open_meteo_geocoding", name |-> address,
                                response |-> resp])
    IN  IF resp.kind \in {"network_error", "http_error"}
        THEN Outcome(st, [status |-> "error",
                          error_message |-> "HTTP Request failed"], made)
        ELSE IF OpenMeteoHasResults(resp)
        THEN LET location == resp.data.results[1]
             IN  IF {"latitude", "longitude"} \subseteq DOMAIN location
                 THEN Outcome(
                        Put(Put(st, "latitude", location.latitude),
                            "longitude", location.longitude),
                        [status |-> "success",
                         latitude |-> location.latitude,
                         longitude |-> location.longitude,
                         report |-> "Open-Meteo"],
                        made)
                 ELSE Escapes(st, "KeyError", made)
        ELSE Outcome(st, [status |-> "error",
                          error_message |-> "Location not found"], made)

\* a variant that stores the two coordinates the wrong way round
google_maps_located_swapped(st, google, made) ==
    LET location == google.data.results[1].geometry.location
    IN  Outcome(Put(Put(st, "latitude", location.lng),
                    "longitude", location.lat),
                [status |-> "success",
                 latitude |-> location.lat,
                 longitude |-> location.lng,
                 report |-> "Google Maps"],
                made)

\* the Google Maps answer is OK: store and return its first location
google_maps_located(st, google, made) ==
    LET location == google.data.results[1].geometry.location
    IN  Outcome(Put(Put(st, "latitude", location.lat),
                    "longitude", location.lng),
                [status |-> "success",
                 latitude |-> location.lat,
                 longitude |-> location.lng,
                 report |-> "Google Maps"],
                made)

\* the request to Google Maps, as recorded among the calls of the tool
google_maps_call(address, google) ==
    [to |-> "google_maps_geocoding", name |-> address, response |-> google]

\* a variant without the return in the Google branch: the Open-Meteo request
\* is sent even though Google Maps has located the address
get_lat_long_falling_through(st, key, address, google, open_meteo) ==
    IF key
    THEN LET made == <<google_maps_call(address, google)>>
         IN  IF GoogleLocated(google)
             THEN google_maps_located(st, google,
                    Append(made, [to |-> "open_meteo_geocoding",
                                  name |-> address, response |-> open_meteo]))
             ELSE open_meteo_geocoding(st, address, open_meteo, made)
    ELSE open_meteo_geocoding(st, address, open_meteo, <<>>)

get_lat_long_from_address(st, key, address, google, open_meteo) ==
    IF key
    THEN LET made == <<google_maps_call(address, google)>>
         IN  IF GoogleLocated(google)
             THEN google_maps_located(st, google, made)
             ELSE open_meteo_geocoding(st, address, open_meteo, made)
    ELSE open_meteo_geocoding(st, address, open_meteo, <<>>)

(***************************************************************************)
(* _get_open_meteo_forecast / get_weather_forecast_dataframe               *)
(***************************************************************************)
\* a variant that takes the forecast URL only for an end date after today
open_meteo_request_after_today(latitude, longitude, init_time, end_time, today, resp) ==
    LET target_time == to_datetime(init_time)
        start_date  == strftime_date(target_time)
        end_date    == IF end_time # None
                       THEN strftime_date(to_datetime(end_time))
                       ELSE start_date
        target_end_dt == to_datetime(end_date)
    IN  [to |-> "open_meteo",
         url |-> IF target_end_dt > today THEN "forecast" ELSE "archive",
         latitude |-> latitude, longitude |-> longitude,
         start_date |-> start_date, end_date |-> end_date,
         response |-> resp]

\* the request _get_open_meteo_forecast builds, when both times parse
open_meteo_request(latitude, longitude, init_time, end_time, today, resp) ==
    LET target_time == to_datetime(init_time)
        start_date  == strftime_date(target_time)
        end_date    == IF end_time # None
                       THEN strftime_date(to_datetime(end_time))
                       ELSE start_date
        target_end_dt == to_datetime(end_date)
    IN  [to |-> "open_meteo",
         url |-> IF target_end_dt >= today THEN "forecast" ELSE "archive",
         latitude |-> latitude, longitude |-> longitude,
         start_date |-> start_date, end_date |-> end_date,
         response |-> resp]

\* pd.to_datetime raises inside _get_open_meteo_forecast
RequestFails(init_time, end_time) ==
    \/ ~Parseable(init_time)
    \/ end_time # None /\ ~Parseable(end_time)

\* the columns the normalisation reads from the hourly block
HourlyColumns == {"time", "wind_speed_10m", "wind_direction_10m",
                  "precipitation", "relative_humidity_2m"}

\* a variant that labels every row with the init_time of the request
get_open_meteo_forecast_labelled(init_time, end_time, resp) ==
    IF RequestFails(init_time, end_time) THEN <<>>
    ELSE IF resp.kind \in {"network_error", "http_error"} THEN <<>>
    ELSE IF "hourly" \notin DOMAIN resp.data THEN <<>>
    ELSE IF ~(HourlyColumns \subseteq resp.data.hourly.columns) THEN <<>>
    ELSE [i \in 1..Len(resp.data.hourly.time) |->
            [init_time |-> to_datetime(init_time),
             time |-> to_datetime(resp.data.hourly.time[i])]]

\* the DataFrame _get_open_meteo_forecast returns: one row per hourly time,
\* init_time derived from the row's own time; empty on any failure
get_open_meteo_forecast(init_time, end_time, resp) ==
    IF RequestFails(init_time, end_time) THEN <<>>
    ELSE IF resp.kind \in {"network_error", "http_error"} THEN <<>>
    ELSE IF "hourly" \notin DOMAIN resp.data THEN <<>>
    ELSE IF ~(HourlyColumns \subseteq resp.data.hourly.columns) THEN <<>>
    ELSE [i \in 1..Len(resp.data.hourly.time) |->
            LET time == to_datetime(resp.data.hourly.time[i])
            IN  [init_time |-> normalize(time), time |-> time]]

\* df_serializable.to_dict(orient='records'): the loaded rows with the two
\* datetime columns converted to strings
df_serializable(df) ==
    [i \in 1..Len(df) |->
        [init_time |-> astype_str(df[i].init_time),
         time      |-> astype_str(df[i].time)]]

\* pd.DataFrame(df_data) with the two columns converted back to datetime
from_dict_records(df_data) ==
    [i \in 1..Len(df_data) |->
        [init_time |-> to_datetime(df_data[i].init_time),
         time      |-> to_datetime(df_data[i].time)]]

\* the requests _get_open_meteo_forecast sends: none when a time fails to parse
open_meteo_calls(latitude, longitude, init_time, end_time, today, resp) ==
    IF RequestFails(init_time, end_time) THEN <<>>
    ELSE <<open_meteo_request(latitude, longitude, init_time, end_time, today,
                              resp)>>

\* a variant that extends the dataframe already in the context
store_dataframe_appending(st, df, calls) ==
    Outcome(Put(st, "dataframe",
                (IF "dataframe" \in DOMAIN st THEN st["dataframe"] ELSE <<>>)
                \o df_serializable(df)),
            [status |-> "success",
             report |-> [latitude |-> st["latitude"],
                         longitude |-> st["longitude"],
                         rows |-> Len(df)]],
            calls)

\* the rows came back: store them as the context's dataframe and report
store_dataframe_invalidating(st, df, calls) ==
    LET stored == Put(st, "dataframe", df_serializable(df))
    IN  Outcome([k \in DOMAIN stored \ {"chart_filenames"} |-> stored[k]],
                [status |-> "success",
                 report |-> [latitude |-> st["latitude"],
                             longitude |-> st["longitude"],
                             rows |-> Len(df)]],
                calls)

store_dataframe(st, df, calls) ==
    Outcome(Put(st, "dataframe", df_serializable(df)),
            [status |-> "success",
             report |-> [latitude |-> st["latitude"],
                         longitude |-> st["longitude"],
                         rows |-> Len(df)]],
            calls)

\* the answer to a call made without coordinates in the context
coordinates_missing(st) ==
    Outcome(st, [status |-> "error",
                 error_message |-> "Latitude or longitude not found in context"],
            <<>>)

\* the answer when _get_open_meteo_forecast returns an empty DataFrame
no_weather_data_clearing(st, calls) ==
    Outcome(Put(st, "dataframe", <<>>),
            [status |-> "error",
             error_message |-> "Weather API returned no data"], calls)

no_weather_data(st, calls) ==
    Outcome(st, [status |-> "error",
                 error_message |-> "Weather API returned no data"], calls)

\* a variant that reads the coordinates with a default instead of checking
\* for them, and so sends the request from a context without coordinates
get_weather_forecast_unchecked(st, init_time, end_time, today, resp) ==
    IF "latitude" \notin DOMAIN st \/ "longitude" \notin DOMAIN st
    THEN no_weather_data(st, open_meteo_calls(0, 0, init_time, end_time,
                                              today, resp))
    ELSE LET calls == open_meteo_calls(st["latitude"], st["longitude"],
                                       init_time, end_time, today, resp)
             df == get_open_meteo_forecast(init_time, end_time, resp)
         IN  IF df = <<>>
             THEN no_weather_data(st, calls)
             ELSE store_dataframe(st, df, calls)

\* a variant without the check for an empty DataFrame
get_weather_forecast_storing_empty(st, init_time, end_time, today, resp) ==
    IF "latitude" \notin DOMAIN st \/ "longitude" \notin DOMAIN st
    THEN coordinates_missing(st)
    ELSE store_dataframe(st,
                         get_open_meteo_forecast(init_time, end_time, resp),
                         open_meteo_calls(st["latitude"], st["longitude"],
                                          init_time, end_time, today, resp))

\* a variant that refuses to load once charts have been generated
get_weather_forecast_before_charts(st, init_time, end_time, today, resp) ==
    IF \/ "latitude" \notin DOMAIN st \/ "longitude" \notin DOMAIN st
       \/ "chart_filenames" \in DOMAIN st
    THEN coordinates_missing(st)
    ELSE LET calls == open_meteo_calls(st["latitude"], st["longitude"],
                                       init_time, end_time, today, resp)
             df == get_open_meteo_forecast(init_time, end_time, resp)
         IN  IF df = <<>>
             THEN no_weather_data(st, calls)
             ELSE store_dataframe(st, df, calls)

\* a variant that passes the coordinates in the wrong order
get_weather_forecast_swapped(st, init_time, end_time, today, resp) ==
    IF "latitude" \notin DOMAIN st \/ "longitude" \notin DOMAIN st
    THEN coordinates_missing(st)
    ELSE LET calls == open_meteo_calls(st["longitude"], st["latitude"],
                                       init_time, end_time, today, resp)
             df == get_open_meteo_forecast(init_time, end_time, resp)
         IN  IF df = <<>>
             THEN no_weather_data(st, calls)
             ELSE store_dataframe(st, df, calls)

get_weather_forecast_dataframe(st, init_time, end_time, today, resp) ==
    IF "latitude" \notin DOMAIN st \/ "longitude" \notin DOMAIN st
    THEN coordinates_missing(st)
    ELSE LET calls == open_meteo_calls(st["latitude"], st["longitude"],
                                       init_time, end_time, today, resp)
             df == get_open_meteo_forecast(init_time, end_time, resp)
         IN  IF df = <<>>
             THEN no_weather_data(st, calls)
             ELSE store_dataframe(st, df, calls)

(***************************************************************************)
(* filter_weather_dataframe_by_time                                        *)
(***************************************************************************)
\* a variant of the range mask that excludes the end boundary
range_mask_exclusive(row, init_time, end_time) ==
    LET start_dt == to_datetime(init_time)
        end_dt   == to_datetime(end_time)
    IN  row.init_time >= start_dt /\ row.init_time < end_dt

\* a variant that compares with the day of init_time
range_mask_truncated(row, init_time, end_time) ==
    LET start_dt == normalize(to_datetime(init_time))
        end_dt   == to_datetime(end_time)
    IN  row.init_time >= start_dt /\ row.init_time <= end_dt

\* the row mask of the range filter (end_time given)
range_mask(row, init_time, end_time) ==
    LET start_dt == to_datetime(init_time)
        end_dt   == to_datetime(end_time)
    IN  row.init_time >= start_dt /\ row.init_time <= end_dt

\* a variant of the single day mask that also compares the year
single_day_mask_same_year(row, init_time) ==
    LET target_time == to_datetime(init_time)
    IN  /\ dt_year(row.init_time) = dt_year(target_time)
        /\ dt_month(row.init_time) = dt_month(target_time)
        /\ dt_day(row.init_time) = dt_day(target_time)
        /\ dt_hour(row.init_time) = 0

\* the row mask of the strict single day filter (no end_time)
single_day_mask(row, init_time) ==
    LET target_time == to_datetime(init_time)
    IN  /\ dt_month(row.init_time) = dt_month(target_time)
        /\ dt_day(row.init_time) = dt_day(target_time)
        /\ dt_hour(row.init_time) = 0

\* df[mask]
filter_rows(df, init_time, end_time) ==
    LET mask(row) == IF end_time # None
                     THEN range_mask(row, init_time, end_time)
                     ELSE single_day_mask(row, init_time)
    IN  SelectSeq(df, mask)

\* a variant that writes the time column into both string columns
filtered_df_time_for_init_time(filtered_df) ==
    [i \in 1..Len(filtered_df) |->
        [init_time |-> astype_str(filtered_df[i].time),
         time      |-> astype_str(filtered_df[i].time)]]

\* filtered_df_serializable.to_dict(orient='records'): the rows kept, with
\* the two datetime columns converted to strings
filtered_df_serializable(filtered_df) ==
    [i \in 1..Len(filtered_df) |->
        [init_time |-> astype_str(filtered_df[i].init_time),
         time      |-> astype_str(filtered_df[i].time)]]

\* the error answers of the tools that need a dataframe
no_dataframe(st) ==
    Outcome(st, [status |-> "error",
                 error_message |-> "No DataFrame in context"], <<>>)

empty_dataframe_accepted(st) ==
    Outcome(st, [status |-> "success",
                 report |-> "DataFrame is empty, no charts generated."], <<>>)

empty_dataframe(st) ==
    Outcome(st, [status |-> "error",
                 error_message |-> "DataFrame is empty or not found in context"],
            <<>>)

filter_failed(st) ==
    Outcome(st, [status |-> "error",
                 error_message |-> "Failed to filter data"], <<>>)

\* a variant that keeps the dataframe it found when no row matches
filter_and_store_unless_empty(st, init_time, end_time) ==
    IF RequestFails(init_time, end_time)
    THEN filter_failed(st)
    ELSE LET df == from_dict_records(st["dataframe"])
             filtered_df == filter_rows(df, init_time, end_time)
         IN  Outcome(IF filtered_df = <<>> THEN st
                     ELSE Put(st, "dataframe",
                              filtered_df_serializable(filtered_df)),
                     [status |-> "success",
                      report |-> [rows |-> Len(filtered_df),
                                  original |-> Len(df)]],
                     <<>>)

\* the body of the try block once the dataframe is known to be non-empty
filter_and_store(st, init_time, end_time) ==
    IF RequestFails(init_time, end_time)
    THEN filter_failed(st)
    ELSE LET df == from_dict_records(st["dataframe"])
             filtered_df == filter_rows(df, init_time, end_time)
         IN  Outcome(Put(st, "dataframe", filtered_df_serializable(filtered_df)),
                     [status |-> "success",
                      report |-> [rows |-> Len(filtered_df),
                                  original |-> Len(df)]],
                     <<>>)

filter_weather_dataframe_by_time(st, init_time, end_time) ==
    IF "dataframe" \notin DOMAIN st
    THEN no_dataframe(st)
    ELSE IF st["dataframe"] = <<>>
    THEN empty_dataframe(st)
    ELSE filter_and_store(st, init_time, end_time)

(***************************************************************************)
(* generate_weather_info_charts / summarize_weather_from_plots             *)
(***************************************************************************)
\* plot_variables, in dict order
plot_variables == <<"2m_temperature", "total_precipitation_6hr",
                    "mean_sea_level_pressure", "10m_u_component_of_wind",
                    "10m_v_component_of_wind", "100_specific_humidity">>

\* f"{col}_plot.png"
plot_filename(col) == <<col, "_plot.png">>

\* pd.Timedelta(days=7), in hours
ChartWindow == 7 * 24

\* df['time'].min()
min_time(df) ==
    CHOOSE t \in {df[i].time : i \in 1..Len(df)} :
        \A i \in 1..Len(df) : t <= df[i].time

\* a variant whose window includes the cutoff time itself
cap_rows_through_cutoff(df) ==
    LET cutoff_time == min_time(df) + ChartWindow
        through(row) == row.time <= cutoff_time
    IN  SelectSeq(df, through)

\* df[df['time'] < cutoff_time]
cap_rows(df) ==
    LET cutoff_time == min_time(df) + ChartWindow
        before(row) == row.time < cutoff_time
    IN  SelectSeq(df, before)

\* the image of one column: the x values the line plot draws
plot_image(df, col) == [column |-> col, time |-> [i \in 1..Len(df) |-> df[i].time]]

\* the artifact store after the first n plots were saved
save_artifacts(arts, df, n) ==
    [f \in DOMAIN arts \cup {plot_filename(plot_variables[i]) : i \in 1..n} |->
        IF \E i \in 1..n : f = plot_filename(plot_variables[i])
        THEN plot_image(df, f[1])
        ELSE arts[f]]

\* saved: how many save_artifact calls succeed before one raises
generate_weather_info_charts(st, arts, saved) ==
    IF "dataframe" \notin DOMAIN st
    THEN [artifacts |-> arts] @@ no_dataframe(st)
    ELSE IF st["dataframe"] = <<>>
    THEN [artifacts |-> arts] @@ empty_dataframe(st)
    ELSE IF from_dict_records(st["dataframe"]) = <<>>
    THEN [artifacts |-> arts] @@
         Outcome(st, [status |-> "success",
                      report |-> "DataFrame is empty, no charts generated."],
                 <<>>)
    ELSE LET df == cap_rows([i \in 1..Len(st["dataframe"]) |->
                        [time |-> to_datetime(st["dataframe"][i].time)]])
             n  == IF saved < Len(plot_variables) THEN saved
                   ELSE Len(plot_variables)
             attempted == IF n < Len(plot_variables) THEN n + 1 ELSE n
             calls == [i \in 1..attempted |->
                        [to |-> "save_artifact",
                         filename |-> plot_filename(plot_variables[i]),
                         response |-> IF i <= n THEN "saved" ELSE "raised"]]
             filenames == [i \in 1..n |-> plot_filename(plot_variables[i])]
         IN  IF n < Len(plot_variables)
             THEN [artifacts |-> save_artifacts(arts, df, n)] @@
                  Outcome(st, [status |-> "error",
                               error_message |-> "Failed to generate charts"],
                          calls)
             ELSE [artifacts |-> save_artifacts(arts, df, n)] @@
                  Outcome(Put(st, "chart_filenames", filenames),
                          [status |-> "success",
                           report |-> [charts |-> filenames]],
                          calls)

\* the answer to a call made before any chart filenames were stored
no_chart_filenames(st) ==
    Outcome(st, [status |-> "error",
                 error_message |-> "No chart filenames in context"], <<>>)

\* the answer for an empty list of chart filenames
no_charts_provided(st) ==
    Outcome(st, [status |-> "success",
                 summary |-> "No charts were provided to generate a summary."],
            <<>>)

\* the loop over the filenames and the call of the generative model
\* loads: how many load_artifact calls succeed before one raises;
\* gen: the generative model's answer, or "raised"
summarize_charts(st, arts, filenames, loads, gen) ==
    LET n == IF loads < Len(filenames) THEN loads ELSE Len(filenames)
        attempted == IF n < Len(filenames) THEN n + 1 ELSE n
        loaded == [i \in 1..attempted |->
                    [to |-> "load_artifact",
                     filename |-> filenames[i],
                     response |-> IF i > n THEN "raised"
                                  ELSE IF filenames[i] \in DOMAIN arts
                                  THEN "loaded" ELSE "None"]]
        image_parts == [i \in 1..n |->
                          IF filenames[i] \in DOMAIN arts
                          THEN arts[filenames[i]] ELSE None]
        calls == Append(loaded, [to |-> "generate_content",
                                 contents |-> image_parts,
                                 response |-> gen])
    IN  IF n < Len(filenames)
        THEN Outcome(st, [status |-> "error",
                          error_message |-> "Failed to generate summary"],
                     loaded)
        ELSE IF gen = "raised"
        THEN Outcome(st, [status |-> "error",
                          error_message |-> "Failed to generate summary"],
                     calls)
        ELSE Outcome(st, [status |-> "success", summary |-> gen], calls)

\* a variant that reads the chart filenames with an empty default instead of
\* checking for the key
summarize_weather_defaulting(st, arts, loads, gen) ==
    LET filenames == IF "chart_filenames" \in DOMAIN st
                     THEN st["chart_filenames"] ELSE <<>>
    IN  IF filenames = <<>>
        THEN no_charts_provided(st)
        ELSE summarize_charts(st, arts, filenames, loads, gen)

summarize_weather_from_plots(st, arts, loads, gen) ==
    IF "chart_filenames" \notin DOMAIN st
    THEN no_chart_filenames(st)
    ELSE IF st["chart_filenames"] = <<>>
    THEN no_charts_provided(st)
    ELSE summarize_charts(st, arts, st["chart_filenames"], loads, gen)

(***************************************************************************)
(* Inputs of the tool calls and answers of the external services           *)
(***************************************************************************)
Addresses == {"Delhi"}

\* coordinates a geocoder can answer with
Coordinates == {<<28, 77>>, <<19, 72>>}

\* what the Google Maps geocoding request can come back with
GoogleResponses ==
    {[kind |-> "network_error"], [kind |-> "http_error"]}
    \cup {[kind |-> "json",
           data |-> [status |-> "OK",
                     results |-> <<[geometry |-> [location |->
                                      [lat |-> c[1], lng |-> c[2]]]]>>]] :
          c \in Coordinates}
    \cup {[kind |-> "json", data |-> [status |-> "ZERO_RESULTS", results |-> <<>>]],
          [kind |-> "json", data |-> [status |-> "OK", results |-> <<>>]]}

\* what the Open-Meteo geocoding request can come back with
OpenMeteoGeocodingResponses ==
    {[kind |-> "network_error"], [kind |-> "http_error"]}
    \cup {[kind |-> "json",
           data |-> [results |-> <<[latitude |-> c[1], longitude |-> c[2]]>>]] :
          c \in Coordinates}
    \cup {[kind |-> "json", data |-> [generationtime_ms |-> 1]],
          [kind |-> "json", data |-> [results |-> <<[name |-> "Delhi"]>>]]}

\* init_time arguments: ISO 8601 strings, one of them unparseable
InitTimes == {<<2025, 1, 13, 0>>, <<2025, 1, 13, 12>>, <<2024, 1, 13, 0>>,
              BadTime}

\* end_time arguments
EndTimes == {None, <<2025, 1, 13, 0>>, <<2025, 1, 20, 12>>, BadTime}

\* hours of weather data, in time order
AllHours == <<<<2024, 1, 13, 0>>, <<2025, 1, 13, 0>>, <<2025, 1, 13, 12>>,
              <<2025, 1, 20, 0>>, <<2025, 1, 20, 12>>, <<2025, 1, 20, 18>>>>

\* the hours the weather service has data for
HourlyTimes == SubSeq(AllHours, 1, IF MaxHours < Len(AllHours) THEN MaxHours
                                   ELSE Len(AllHours))

\* the values of pd.Timestamp.now().normalize() a run can see
CurrentDates == {to_datetime(<<2025, 1, 13, 0>>)}

\* the hourly series the weather service answers a request with: its hours
\* that lie within start_date..end_date, in time order
HourlySeries(start_date, end_date) ==
    LET InRange(t) == /\ to_datetime(t) >= to_datetime(start_date)
                      /\ to_datetime(t) < to_datetime(end_date) + 24
    IN  SelectSeq(HourlyTimes, InRange)

\* what the weather request can come back with
OpenMeteoResponses(init_time, end_time) ==
    LET req == open_meteo_request(0, 0, init_time, end_time, 0, [kind |-> "none"])
        series == HourlySeries(req.start_date, req.end_date)
    IN  {[kind |-> "network_error"], [kind |-> "http_error"],
         [kind |-> "json", data |-> [error |-> TRUE]],
         [kind |-> "json",
          data |-> [hourly |-> [columns |-> HourlyColumns, time |-> <<>>]]],
         [kind |-> "json",
          data |-> [hourly |-> [columns |-> {"time"}, time |-> series]]],
         [kind |-> "json",
          data |-> [hourly |-> [columns |-> HourlyColumns, time |-> series]]]}

\* a request that is never sent has no answer
NoResponse == [kind |-> "none"]

\* outcomes of the save_artifact / load_artifact loops and of the model call
SaveOutcomes == {0, 6}
LoadOutcomes == {2, 6}
GenerateOutcomes == {"summary text", "raised"}

(***************************************************************************)
(* The session                                                             *)
(***************************************************************************)
Init ==
    /\ geo_maps_api_key \in BOOLEAN
    /\ current_date \in CurrentDates
    /\ state = EmptyDict
    /\ artifacts = EmptyDict
    /\ sessions = EmptyDict
    /\ figures = <<>>
    /\ bigquery_client = FALSE
    /\ pre = EmptyDict
    /\ last = [op |-> "none", args |-> <<>>, result |-> [status |-> "none"],
               raised |-> "", calls |-> <<>>]

\* bookkeeping common to every tool call
Called(op, args, out) ==
    /\ pre' = state
    /\ state' = out.state
    /\ last' = [op |-> op, args |-> args, result |-> out.result,
                raised |-> out.raised, calls |-> out.calls]
    /\ UNCHANGED <<sessions, figures, bigquery_client>>

ResolveLocation ==
    \E address \in Addresses,
       google \in IF geo_maps_api_key THEN GoogleResponses ELSE {NoResponse} :
      \E open_meteo \in IF GoogleLocated(google) THEN {NoResponse}
                        ELSE OpenMeteoGeocodingResponses :
        /\ Called("get_lat_long_from_address", [address |-> address],
                  get_lat_long_from_address(state, geo_maps_api_key, address,
                                            google, open_meteo))
        /\ UNCHANGED <<geo_maps_api_key, current_date, artifacts>>

LoadDataset ==
    \E init_time \in InitTimes, end_time \in EndTimes :
      \E resp \in IF \/ ~({"latitude", "longitude"} \subseteq DOMAIN state)
                      \/ RequestFails(init_time, end_time)
                   THEN {NoResponse}
                   ELSE OpenMeteoResponses(init_time, end_time) :
        /\ Called("get_weather_forecast_dataframe",
                  [init_time |-> init_time, end_time |-> end_time],
                  get_weather_forecast_dataframe(state, init_time, end_time,
                                                 current_date, resp))
        /\ UNCHANGED <<geo_maps_api_key, current_date, artifacts>>

FilterDataset ==
    \E init_time \in InitTimes, end_time \in EndTimes :
        /\ Called("filter_weather_dataframe_by_time",
                  [init_time |-> init_time, end_time |-> end_time],
                  filter_weather_dataframe_by_time(state, init_time, end_time))
        /\ UNCHANGED <<geo_maps_api_key, current_date, artifacts>>

RenderCharts ==
    \E saved \in SaveOutcomes :
        LET out == generate_weather_info_charts(state, artifacts, saved)
        IN  /\ Called("generate_weather_info_charts", <<>>, out)
            /\ artifacts' = out.artifacts
            /\ UNCHANGED <<geo_maps_api_key, current_date>>

Summarize ==
    \E loads \in LoadOutcomes, gen \in GenerateOutcomes :
        /\ Called("summarize_weather_from_plots", <<>>,
                  summarize_weather_from_plots(state, artifacts, loads, gen))
        /\ UNCHANGED <<geo_maps_api_key, current_date, artifacts>>

Next ==
    \/ ResolveLocation
    \/ LoadDataset
    \/ FilterDataset
    \/ RenderCharts
    \/ Summarize

Spec == Init /\ [][Next]_vars

(***************************************************************************)
(* Several sessions on the one toolkit instance WEATHER_REPORT_TOOLKIT.    *)
(* The two coroutines (generate_weather_info_charts and                    *)
(* summarize_weather_from_plots) run from one await to the next in a       *)
(* single step, and hand control to the other sessions at every await; the *)
(* three plain functions run in one step. Each session has one call in     *)
(* flight at a time.                                                        *)
(***************************************************************************)
Sessions == {"A", "B"}

\* no coroutine suspended
NoTask == [op |-> "none"]

\* a session as create_session leaves it
NewSession == [state |-> EmptyDict, artifacts |-> EmptyDict, task |-> NoTask]

\* what the geocoder answers for a session's address, and the day the session
\* asks the weather for
SessionCoordinates == [s \in Sessions |-> IF s = "A" THEN <<28, 77>> ELSE <<19, 72>>]
SessionInitTime ==
    [s \in Sessions |-> IF s = "A" THEN <<2024, 1, 13, 0>> ELSE <<2025, 1, 13, 0>>]

\* a variant that goes on drawing in the current figure when one is open
plt_figure_reusing(figs) ==
    IF figs = <<>> THEN <<[column |-> "", time |-> <<>>]>> ELSE figs

\* plt.figure(): a new, empty figure becomes the current one
plt_figure(figs) == Append(figs, [column |-> "", time |-> <<>>])

\* sns.lineplot(data=df, x="time", y=col) and the labelling calls: one more
\* line on the axes of the current figure
lineplot(figs, df, col) ==
    [figs EXCEPT ![Len(figs)] =
        [column |-> col,
         time |-> @.time \o [i \in 1..Len(df) |-> df[i].time]]]

\* plt.savefig(buffer); buffer.read(): the image of the current figure
savefig(figs) == figs[Len(figs)]

\* plt.close(): closes the current figure, if there is one
plt_close(figs) == IF figs = <<>> THEN figs ELSE SubSeq(figs, 1, Len(figs) - 1)

\* one pass of the plotting loop up to its await
plot_to_buffer(figs, df, col) ==
    LET drawn == lineplot(plt_figure(figs), df, col)
    IN  [figures |-> drawn, image_byte_data |-> savefig(drawn)]

\* the save_artifact calls of a run of the loop in which n saves went through
\* and, if failed, the next one raised
save_artifact_calls(n, failed) ==
    [i \in 1..(IF failed THEN n + 1 ELSE n) |->
        [to |-> "save_artifact",
         filename |-> plot_filename(plot_variables[i]),
         response |-> IF i <= n THEN "saved" ELSE "raised"]]

\* the load_artifact calls that produced these image parts and, if failed,
\* the next one that raised
load_artifact_calls(filenames, image_parts, failed) ==
    [i \in 1..(IF failed THEN Len(image_parts) + 1 ELSE Len(image_parts)) |->
        [to |-> "load_artifact",
         filename |-> filenames[i],
         response |-> IF i > Len(image_parts) THEN "raised"
                      ELSE IF image_parts[i] = None THEN "None" ELSE "loaded"]]

\* a step that ends at an await: the coroutine is suspended with its locals
Suspended(st, arts, figs, task) ==
    [state |-> st, artifacts |-> arts, figures |-> figs, task |-> task,
     returned |-> FALSE]

\* a step that ends with the call returning (or raising); began is the
\* session's state and artifact store when the call began
Returned(began, out, arts, figs) ==
    [state |-> out.state, artifacts |-> arts, figures |-> figs, task |-> NoTask,
     returned |-> TRUE, began |-> began, result |-> out.result,
     raised |-> out.raised, calls |-> out.calls]

\* generate_weather_info_charts from its start to its first await
render_begin(st, arts, figs) ==
    LET began == [state |-> st, artifacts |-> arts] IN
    IF "dataframe" \notin DOMAIN st
    THEN Returned(began, no_dataframe(st), arts, figs)
    ELSE IF st["dataframe"] = <<>>
    THEN Returned(began, empty_dataframe(st), arts, figs)
    ELSE LET df == cap_rows([i \in 1..Len(st["dataframe"]) |->
                        [time |-> to_datetime(st["dataframe"][i].time)]])
             plot == plot_to_buffer(figs, df, plot_variables[1])
         IN  Suspended(st, arts, plot.figures,
                       [op |-> "generate_weather_info_charts",
                        began |-> began, df |-> df, filenames |-> <<>>,
                        image_byte_data |-> plot.image_byte_data])

\* a variant that stores the chart filenames after every save
render_resume_storing_early(st, arts, figs, task, saved) ==
    LET i == Len(task.filenames) + 1
        filenames == Append(task.filenames, plot_filename(plot_variables[i]))
        stored == Put(arts, plot_filename(plot_variables[i]),
                      task.image_byte_data)
        closed == plt_close(figs)
    IN  IF ~saved
        THEN Returned(task.began,
                      Outcome(st, [status |-> "error",
                                   error_message |-> "Failed to generate charts"],
                              save_artifact_calls(i - 1, TRUE)),
                      arts, figs)
        ELSE IF i < Len(plot_variables)
        THEN LET plot == plot_to_buffer(closed, task.df, plot_variables[i + 1])
             IN  Suspended(Put(st, "chart_filenames", filenames), stored,
                           plot.figures,
                           [task EXCEPT !.filenames = filenames,
                                        !.image_byte_data = plot.image_byte_data])
        ELSE Returned(task.began,
                      Outcome(Put(st, "chart_filenames", filenames),
                              [status |-> "success",
                               report |-> [charts |-> filenames]],
                              save_artifact_calls(i, FALSE)),
                      stored, closed)

\* a variant that reads the dataframe from the context again for every plot
render_resume_rereading(st, arts, figs, task, saved) ==
    LET i == Len(task.filenames) + 1
        filenames == Append(task.filenames, plot_filename(plot_variables[i]))
        stored == Put(arts, plot_filename(plot_variables[i]),
                      task.image_byte_data)
        closed == plt_close(figs)
        df == IF st["dataframe"] = <<>> THEN task.df
              ELSE cap_rows([k \in 1..Len(st["dataframe"]) |->
                        [time |-> to_datetime(st["dataframe"][k].time)]])
    IN  IF ~saved
        THEN Returned(task.began,
                      Outcome(st, [status |-> "error",
                                   error_message |-> "Failed to generate charts"],
                              save_artifact_calls(i - 1, TRUE)),
                      arts, figs)
        ELSE IF i < Len(plot_variables)
        THEN LET plot == plot_to_buffer(closed, df, plot_variables[i + 1])
             IN  Suspended(st, stored, plot.figures,
                           [task EXCEPT !.filenames = filenames,
                                        !.image_byte_data = plot.image_byte_data])
        ELSE Returned(task.began,
                      Outcome(Put(st, "chart_filenames", filenames),
                              [status |-> "success",
                               report |-> [charts |-> filenames]],
                              save_artifact_calls(i, FALSE)),
                      stored, closed)

\* generate_weather_info_charts from the await of one save_artifact to the
\* next await or to its return; saved: the awaited save went through
render_resume(st, arts, figs, task, saved) ==
    LET i == Len(task.filenames) + 1
        filenames == Append(task.filenames, plot_filename(plot_variables[i]))
        stored == Put(arts, plot_filename(plot_variables[i]),
                      task.image_byte_data)
        closed == plt_close(figs)
    IN  IF ~saved
        THEN Returned(task.began,
                      Outcome(st, [status |-> "error",
                                   error_message |-> "Failed to generate charts"],
                              save_artifact_calls(i - 1, TRUE)),
                      arts, figs)
        ELSE IF i < Len(plot_variables)
        THEN LET plot == plot_to_buffer(closed, task.df, plot_variables[i + 1])
             IN  Suspended(st, stored, plot.figures,
                           [task EXCEPT !.filenames = filenames,
                                        !.image_byte_data = plot.image_byte_data])
        ELSE Returned(task.began,
                      Outcome(Put(st, "chart_filenames", filenames),
                              [status |-> "success",
                               report |-> [charts |-> filenames]],
                              save_artifact_calls(i, FALSE)),
                      stored, closed)

\* summarize_weather_from_plots from its start to its first await
summarize_begin(st, arts, figs) ==
    LET began == [state |-> st, artifacts |-> arts] IN
    IF "chart_filenames" \notin DOMAIN st
    THEN Returned(began, no_chart_filenames(st), arts, figs)
    ELSE IF st["chart_filenames"] = <<>>
    THEN Returned(began, no_charts_provided(st), arts, figs)
    ELSE Suspended(st, arts, figs,
                   [op |-> "summarize_weather_from_plots", began |-> began,
                    filenames |-> st["chart_filenames"], image_parts |-> <<>>])

\* summarize_weather_from_plots from the await of one load_artifact to the
\* next await or, after the last one, through generate_content to its return;
\* loaded: the awaited load went through; gen: the generative model's answer
summarize_resume(st, arts, figs, task, loaded, gen) ==
    LET filename == task.filenames[Len(task.image_parts) + 1]
        image_parts == Append(task.image_parts,
                              IF filename \in DOMAIN arts THEN arts[filename]
                              ELSE None)
        failed == Outcome(st, [status |-> "error",
                               error_message |-> "Failed to generate summary"],
                          load_artifact_calls(task.filenames, task.image_parts,
                                              TRUE))
        calls == Append(load_artifact_calls(task.filenames, image_parts, FALSE),
                        [to |-> "generate_content", contents |-> image_parts,
                         response |-> gen])
    IN  IF ~loaded
        THEN Returned(task.began, failed, arts, figs)
        ELSE IF Len(image_parts) < Len(task.filenames)
        THEN Suspended(st, arts, figs, [task EXCEPT !.image_parts = image_parts])
        ELSE IF gen = "raised"
        THEN Returned(task.began,
                      Outcome(st, [status |-> "error",
                                   error_message |-> "Failed to generate summary"],
                              calls),
                      arts, figs)
        ELSE Returned(task.began,
                      Outcome(st, [status |-> "success", summary |-> gen], calls),
                      arts, figs)

\* the Google Maps answer that locates these coordinates
GoogleLocates(c) ==
    CHOOSE r \in GoogleResponses :
        /\ GoogleLocated(r)
        /\ r.data.results[1].geometry.location = [lat |-> c[1], lng |-> c[2]]

\* the weather answer with every column and the hours of the requested day
FullResponse(init_time) ==
    CHOOSE r \in OpenMeteoResponses(init_time, None) :
        /\ r.kind = "json"
        /\ "hourly" \in DOMAIN r.data
        /\ r.data.hourly.columns = HourlyColumns
        /\ r.data.hourly.time # <<>>

InitSessions ==
    /\ geo_maps_api_key = TRUE
    /\ current_date \in CurrentDates
    /\ state = EmptyDict
    /\ artifacts = EmptyDict
    /\ sessions = [s \in Sessions |-> NewSession]
    /\ figures = <<>>
    /\ bigquery_client = FALSE
    /\ pre = EmptyDict
    /\ last = [op |-> "none", args |-> <<>>, result |-> [status |-> "none"],
               raised |-> "", calls |-> <<>>]

\* the step of session s ended as out says; pre and last describe the call
\* that returned in this step, if one did
Stepped(s, op, args, out) ==
    /\ sessions' = [sessions EXCEPT ![s] = [state |-> out.state,
                                            artifacts |-> out.artifacts,
                                            task |-> out.task]]
    /\ figures' = out.figures
    /\ IF out.returned
       THEN /\ pre' = out.began.state
            /\ last' = [session |-> s, op |-> op, args |-> args,
                        result |-> out.result, raised |-> out.raised,
                        calls |-> out.calls, began |-> out.began]
       ELSE /\ pre' = EmptyDict
            /\ last' = [op |-> "none", args |-> <<>>,
                        result |-> [status |-> "none"], raised |-> "",
                        calls |-> <<>>]
    /\ UNCHANGED <<geo_maps_api_key, current_date, state, artifacts,
                   bigquery_client>>

\* a plain function called in session s returns out
Ran(s, op, args, out) ==
    Stepped(s, op, args,
            Returned([state |-> sessions[s].state,
                      artifacts |-> sessions[s].artifacts],
                     out, sessions[s].artifacts, figures))

Idle(s) == sessions[s].task = NoTask

ResolveLocationIn(s) ==
    /\ Idle(s)
    /\ \E address \in Addresses :
         Ran(s, "get_lat_long_from_address", [address |-> address],
             get_lat_long_from_address(sessions[s].state, geo_maps_api_key,
                                       address,
                                       GoogleLocates(SessionCoordinates[s]),
                                       NoResponse))

LoadDatasetIn(s) ==
    /\ Idle(s)
    /\ {"latitude", "longitude"} \subseteq DOMAIN sessions[s].state
    /\ Ran(s, "get_weather_forecast_dataframe",
           [init_time |-> SessionInitTime[s], end_time |-> None],
           get_weather_forecast_dataframe(sessions[s].state, SessionInitTime[s],
                                          None, current_date,
                                          FullResponse(SessionInitTime[s])))

FilterDatasetIn(s) ==
    /\ Idle(s)
    /\ "dataframe" \in DOMAIN sessions[s].state
    /\ Ran(s, "filter_weather_dataframe_by_time",
           [init_time |-> SessionInitTime[s], end_time |-> None],
           filter_weather_dataframe_by_time(sessions[s].state,
                                            SessionInitTime[s], None))

RenderChartsBegin(s) ==
    /\ Idle(s)
    /\ Len(figures) < MaxFigures
    /\ Stepped(s, "generate_weather_info_charts", <<>>,
               render_begin(sessions[s].state, sessions[s].artifacts, figures))

RenderChartsResume(s) ==
    /\ sessions[s].task.op = "generate_weather_info_charts"
    /\ \E saved \in IF Len(sessions[s].task.filenames) \in SaveOutcomes
                     THEN BOOLEAN ELSE {TRUE} :
         Stepped(s, "generate_weather_info_charts", <<>>,
                 render_resume(sessions[s].state, sessions[s].artifacts,
                               figures, sessions[s].task, saved))

SummarizeBegin(s) ==
    /\ Idle(s)
    /\ Stepped(s, "summarize_weather_from_plots", <<>>,
               summarize_begin(sessions[s].state, sessions[s].artifacts,
                               figures))

SummarizeResume(s) ==
    /\ sessions[s].task.op = "summarize_weather_from_plots"
    /\ \E loaded \in IF Len(sessions[s].task.image_parts) \in LoadOutcomes
                      THEN BOOLEAN ELSE {TRUE} :
         \E gen \in IF loaded /\ Len(sessions[s].task.image_parts) + 1
                                   = Len(sessions[s].task.filenames)
                    THEN GenerateOutcomes ELSE {"raised"} :
           Stepped(s, "summarize_weather_from_plots", <<>>,
                   summarize_resume(sessions[s].state, sessions[s].artifacts,
                                    figures, sessions[s].task, loaded, gen))

NextSessions ==
    \E s \in Sessions :
        \/ ResolveLocationIn(s)
        \/ LoadDatasetIn(s)
        \/ FilterDatasetIn(s)
        \/ RenderChartsBegin(s)
        \/ RenderChartsResume(s)
        \/ SummarizeBegin(s)
        \/ SummarizeResume(s)

SpecSessions == InitSessions /\ [][NextSessions]_vars

(***************************************************************************)
(* One session whose plain tools run between the awaits of its render      *)
(***************************************************************************)
\* the session whose calls interleave
Interleaved == "A"

\* the days Load Dataset and Filter Dataset are called with
InterleavedInitTimes == {SessionInitTime[s] : s \in Sessions}

\* a plain function called in session s returns out; a coroutine the session
\* has suspended stays suspended
RanBetween(s, op, args, out) ==
    Stepped(s, op, args,
            [Returned([state |-> sessions[s].state,
                       artifacts |-> sessions[s].artifacts],
                      out, sessions[s].artifacts, figures)
             EXCEPT !.task = sessions[s].task])

LoadDatasetBetween(s) ==
    /\ {"latitude", "longitude"} \subseteq DOMAIN sessions[s].state
    /\ \E init_time \in InterleavedInitTimes :
         RanBetween(s, "get_weather_forecast_dataframe",
                    [init_time |-> init_time, end_time |-> None],
                    get_weather_forecast_dataframe(sessions[s].state, init_time,
                                                   None, current_date,
                                                   FullResponse(init_time)))

FilterDatasetBetween(s) ==
    /\ "dataframe" \in DOMAIN sessions[s].state
    /\ \E init_time \in InterleavedInitTimes :
         RanBetween(s, "filter_weather_dataframe_by_time",
                    [init_time |-> init_time, end_time |-> None],
                    filter_weather_dataframe_by_time(sessions[s].state,
                                                     init_time, None))

NextInterleaved ==
    \/ ResolveLocationIn(Interleaved)
    \/ LoadDatasetBetween(Interleaved)
    \/ FilterDatasetBetween(Interleaved)
    \/ RenderChartsBegin(Interleaved)
    \/ RenderChartsResume(Interleaved)

SpecInterleaved == InitSessions /\ [][NextInterleaved]_vars

(***************************************************************************)
(* Demand forecast tool: DemandForecast.forecast and get_demand_forecast   *)
(*                                                                         *)
(* A str argument is a one-element tuple holding its text, so that None    *)
(* (the empty tuple) and a str are values of one kind.  A DATE is the      *)
(* tuple <<year, month, day, 0>>.  Consumption values are integers         *)
(* counting thousandths of a mega unit, rounded values count hundredths.   *)
(***************************************************************************)
Str(text) == <<text>>

\* bool(v) of an Optional[str]: None and "" are falsy
truthy(v) == v # None /\ v # Str("")

\* what a call of the forecast tool does: the value it returns, or the class
\* and str() of the exception that leaves it, and the external calls it made
Returns(value, calls) ==
    [result |-> value, raised |-> "", message |-> <<>>, calls |-> calls]

Raises(type, message, calls) ==
    [result |-> <<>>, raised |-> type, message |-> message, calls |-> calls]

\* json.dumps(obj): the JSON text of the document
json_dumps(obj) == [text |-> obj]

\* the WHERE predicates: one per truthy scope argument, then the date bound
where_clauses(state_name, region, power_supplier) ==
    (IF truthy(state_name) THEN <<"state = @state">> ELSE <<>>)
    \o (IF truthy(region) THEN <<"region = @region">> ELSE <<>>)
    \o (IF truthy(power_supplier)
        THEN <<"power_supplier = @power_supplier">> ELSE <<>>)
    \o <<"date <= @current_date">>

\* the names of the query parameters, in the order they are appended
query_parameters(state_name, region, power_supplier) ==
    <<"history_days">>
    \o (IF truthy(state_name) THEN <<"state">> ELSE <<>>)
    \o (IF truthy(region) THEN <<"region">> ELSE <<>>)
    \o (IF truthy(power_supplier) THEN <<"power_supplier">> ELSE <<>>)
    \o <<"current_date">>

\* the rows BigQuery answers with: of the per-date sums, newest first, the
\* first history_days
query_rows(sums, history_days) ==
    SubSeq(sums, 1, IF history_days < Len(sums) THEN history_days ELSE Len(sums))

\* the query of one forecast, with the answer of the service (or its failure)
bigquery_call(state_name, region, power_supplier, history_days, today, response) ==
    [api |-> "bigquery.query",
     where_clauses |-> where_clauses(state_name, region, power_supplier),
     params |-> query_parameters(state_name, region, power_supplier),
     history_days |-> history_days,
     current_date |-> strftime_date(today),
     response |-> response]

\* bigquery_client.query(...).to_dataframe(): the rows, <<>> when it raised
\* (a None client raises AttributeError)
query_raised(client, response) == ~client \/ response.kind = "raised"

query_error(client, response) ==
    IF ~client THEN <<"'NoneType' object has no attribute 'query'">>
    ELSE response.message

\* fewest rows a forecast is made from
MinRows == 14

insufficient_data_inclusive(df) == Len(df) <= MinRows

\* len(df) < 14
insufficient_data(df) == Len(df) < MinRows

\* df['date'] = pd.to_datetime(df['date'])
dates_to_datetime(df) ==
    [i \in 1..Len(df) |->
        [date |-> to_datetime(df[i].date),
         consumption_mega_units |-> df[i].consumption_mega_units]]

\* df.sort_values('date'): ascending by date, the order of equal dates kept
RECURSIVE sort_values(_)
sort_values(df) ==
    IF df = <<>> THEN <<>>
    ELSE LET rest == sort_values(Tail(df))
             date == Head(df).date
         IN  SelectSeq(rest, LAMBDA r : r.date < date)
             \o <<Head(df)>>
             \o SelectSeq(rest, LAMBDA r : ~(r.date < date))

\* time_series.index.max()
index_max(time_series) ==
    CHOOSE d \in {time_series[k].date : k \in 1..Len(time_series)} :
        \A k \in 1..Len(time_series) : time_series[k].date <= d

\* round(value, 2) of a value in thousandths: hundredths, ties to even
round2(value) ==
    LET q == value \div 10
        r == value % 10
    IN  IF r > 5 \/ (r = 5 /\ q % 2 = 1) THEN q + 1 ELSE q

\* model.forecast(steps=period): the projections of the fitted model
forecast_values(fit, period) ==
    [i \in 1..period |-> fit.level + i * fit.trend]

forecast_dates_from_last(last_date, period) ==
    [i \in 1..period |-> last_date + 24 * (i - 1)]

\* pd.date_range(start=last_date + 1 day, periods=period, freq='D')
forecast_dates(last_date, period) ==
    [i \in 1..period |-> last_date + 24 + 24 * (i - 1)]

\* [{...} for date, value in zip(forecast_dates, forecast_values)]
forecast_list(dates, values) ==
    [i \in 1..(IF Len(dates) < Len(values) THEN Len(dates) ELSE Len(values)) |->
        [date |-> strftime_date(dates[i]),
         forecasted_consumption_mega_units |-> round2(values[i])]]

\* {k: v for k, v in scope.items() if v is not None} or "National": a dict
\* of the arguments that are not None, or the str when that dict is empty
scope_or_national(state_name, region, power_supplier) ==
    LET scope == [state |-> state_name, region |-> region,
                  power_supplier |-> power_supplier]
        kept  == {k \in DOMAIN scope : scope[k] # None}
    IN  IF kept # {} THEN [dict |-> [k \in kept |-> scope[k]]]
        ELSE [str |-> "National"]

\* DemandForecast.forecast: response is what the query service answers,
\* fit what fitting and projecting the model come to
forecast(client, period, state_name, region, power_supplier, history_days, today, response, fit) ==
    LET query == bigquery_call(state_name, region, power_supplier,
                               history_days, today, response)
        df    == query_rows(response.sums, history_days)
    IN  IF query_raised(client, response)
        THEN Raises("ConnectionError",
                    <<"Failed to query BigQuery. Error: ",
                      query_error(client, response)>>,
                    IF client THEN <<query>> ELSE <<>>)
        ELSE IF insufficient_data(df)
        THEN Raises("ValueError",
                    <<"Insufficient data for forecast. Need at least 14 days, but found ",
                      Len(df)>>,
                    <<query>>)
        ELSE
        LET time_series == sort_values(dates_to_datetime(df))
            fitting == [api |-> "ExponentialSmoothing.fit",
                        nobs |-> Len(time_series)]
        IN  IF fit.kind = "raised"
            THEN Raises(fit.type, fit.message, <<query, fitting>>)
            ELSE
            LET last_date == index_max(time_series)
            IN  Returns(json_dumps(
                    [forecast_parameters |->
                        [scope |-> scope_or_national(state_name, region,
                                                     power_supplier),
                         forecast_days |-> period,
                         method |-> "Triple Exponential Smoothing (Holt-Winters)",
                         historical_days_used |-> Len(time_series),
                         based_on_last_date |-> strftime_date(last_date)],
                     demand_forecast |->
                        forecast_list(forecast_dates(last_date, period),
                                      forecast_values(fit, period))]),
                    <<query, fitting>>)

\* the two except clauses of get_demand_forecast
error_result(out) ==
    IF out.raised \in {"ValueError", "ConnectionError"}
    THEN Returns(json_dumps([error |-> out.message]), out.calls)
    ELSE Returns(json_dumps([error |-> <<"An unexpected error occurred: ",
                                         out.message>>]), out.calls)

get_demand_forecast_expected_only(client, period, state_name, region, power_supplier, history_days, today, response, fit) ==
    LET out == forecast(client, period, state_name, region, power_supplier,
                        history_days, today, response, fit)
    IN  IF out.raised \in {"", "KeyError", "TypeError"} THEN out
        ELSE error_result(out)

\* get_demand_forecast
get_demand_forecast(client, period, state_name, region, power_supplier, history_days, today, response, fit) ==
    LET out == forecast(client, period, state_name, region, power_supplier,
                        history_days, today, response, fit)
    IN  IF out.raised = "" THEN out ELSE error_result(out)

\* arguments of the forecast tool
Periods == {1, 5}
StateNames == {None, Str("Kerala")}
Regions == {None, Str("South")}
PowerSuppliers == {None, Str("")}
HistoryDays == {13, 365}

\* n daily sums, newest first, the newest of the day last_day and after
\* the newest `recent` of them a day without data
DailySums(last_day, n, recent) ==
    [i \in 1..n |->
        [date |-> strftime_date(to_datetime(last_day)
                                - 24 * (IF i <= recent THEN i - 1 ELSE i)),
         consumption_mega_units |-> 100000 + 125 * i]]

\* what the query service can answer
QueryResponses ==
    {[kind |-> "raised", message |-> <<"403 Access Denied">>, sums |-> <<>>]}
    \cup {[kind |-> "rows", message |-> <<>>, sums |-> sums] :
            sums \in {DailySums(<<2024, 6, 10, 0>>, 13, 13),
                      DailySums(<<2024, 6, 10, 0>>, 14, 14),
                      DailySums(<<2024, 2, 27, 0>>, 16, 3)}}

\* what fitting and projecting the Holt-Winters model can come to
FitOutcomes ==
    {[kind |-> "fitted", level |-> 101005, trend |-> 250,
      type |-> "", message |-> <<>>],
     [kind |-> "raised", level |-> 0, trend |-> 0,
      type |-> "ValueError", message |-> <<"endog must be 1-dimensional">>],
     [kind |-> "raised", level |-> 0, trend |-> 0,
      type |-> "TypeError", message |-> <<"unsupported operand type(s)">>]}

NoFit == [kind |-> "none", level |-> 0, trend |-> 0, type |-> "",
          message |-> <<>>]

InitForecast ==
    /\ bigquery_client \in BOOLEAN
    /\ current_date \in CurrentDates
    /\ geo_maps_api_key = FALSE
    /\ state = EmptyDict
    /\ artifacts = EmptyDict
    /\ sessions = EmptyDict
    /\ figures = <<>>
    /\ pre = EmptyDict
    /\ last = [op |-> "none", args |-> <<>>, result |-> <<>>, raised |-> "",
               message |-> <<>>, calls |-> <<>>]

\* one call of the tool, with the answer of the query service and the
\* outcome of the model fit it meets
GetDemandForecast ==
    \E period \in Periods, state_name \in StateNames, region \in Regions,
       power_supplier \in PowerSuppliers, history_days \in HistoryDays :
      \E response \in IF bigquery_client THEN QueryResponses
                      ELSE {[kind |-> "none", message |-> <<>>, sums |-> <<>>]} :
        \E fit \in IF \/ query_raised(bigquery_client, response)
                      \/ insufficient_data(query_rows(response.sums, history_days))
                   THEN {NoFit} ELSE FitOutcomes :
          LET out == get_demand_forecast(bigquery_client, period, state_name,
                                         region, power_supplier, history_days,
                                         current_date, response, fit)
          IN  /\ last' = [op |-> "get_demand_forecast",
                          args |-> [period |-> period, state |-> state_name,
                                    region |-> region,
                                    power_supplier |-> power_supplier,
                                    history_days |-> history_days],
                          result |-> out.result, raised |-> out.raised,
                          message |-> out.message, calls |-> out.calls]
              /\ UNCHANGED <<geo_maps_api_key, current_date, state, artifacts,
                             sessions, figures, bigquery_client, pre>>

NextForecast == GetDemandForecast

SpecForecast == InitForecast /\ [][NextForecast]_vars

(***************************************************************************)
(* Properties of Resolve Location (get_lat_long_from_address)              *)
(***************************************************************************)
Resolved == last.op = "get_lat_long_from_address"

\* the providers attempted by the last call, in order
Attempts == [i \in 1..Len(last.calls) |-> last.calls[i].to]

\* the primary provider was asked and answered with a location
PrimaryAsked == Resolved /\ Len(last.calls) >= 1
                /\ last.calls[1].to = "google_maps_geocoding"

PrimaryAnswer == last.calls[1].response

PrimaryResolves ==
    /\ PrimaryAsked
    /\ PrimaryAnswer.kind = "json"
    /\ PrimaryAnswer.data.status = "OK"
    /\ PrimaryAnswer.data.results # <<>>

\* the secondary provider was asked; its answer and whether it is a location
SecondaryAsked ==
    Resolved /\ \E i \in 1..Len(last.calls) : last.calls[i].to = "open_meteo_geocoding"

SecondaryAnswer == last.calls[Len(last.calls)].response

SecondaryResolves ==
    /\ SecondaryAsked
    /\ SecondaryAnswer.kind = "json"
    /\ "results" \in DOMAIN SecondaryAnswer.data
    /\ SecondaryAnswer.data.results # <<>>
    /\ "latitude" \in DOMAIN SecondaryAnswer.data.results[1]

\* the call returned these coordinates and the context holds them
ReturnsAndStores(lat, lng) ==
    /\ last.raised = ""
    /\ last.result.status = "success"
    /\ last.result.latitude = lat /\ last.result.longitude = lng
    /\ {"latitude", "longitude"} \subseteq DOMAIN state
    /\ state["latitude"] = lat /\ state["longitude"] = lng

\* C1: a Resolve Location call whose address the primary provider resolves
\* returns the primary's coordinates, stores exactly them as latitude and
\* longitude, and does not invoke the secondary provider.
C1_PrimaryWins ==
    PrimaryResolves =>
        LET location == PrimaryAnswer.data.results[1].geometry.location
        IN  /\ ReturnsAndStores(location.lat, location.lng)
            /\ ~SecondaryAsked

\* a call the primary resolved, overwriting other coordinates
C1_Witness ==
    /\ PrimaryResolves
    /\ "latitude" \in DOMAIN pre
    /\ pre["latitude"] # state["latitude"]

\* C2: when the primary errors or finds no match the secondary is invoked;
\* if the secondary resolves, its coordinates are returned and stored; the
\* call returns an error (LocationNotFound) exactly when both failed.
C2_FallbackOrNotFound ==
    (PrimaryAsked /\ ~PrimaryResolves) =>
        /\ SecondaryAsked
        /\ SecondaryResolves =>
              LET location == SecondaryAnswer.data.results[1]
              IN  ReturnsAndStores(location.latitude, location.longitude)
        /\ (last.raised = "" /\ last.result.status = "error") <=> ~SecondaryResolves

\* C3 as stated: whatever the configuration, the attempts of a call are
\* <primary> or <primary, secondary>.
C3_PrimaryAlwaysFirst ==
    Resolved =>
        Attempts \in {<<"google_maps_geocoding">>,
                      <<"google_maps_geocoding", "open_meteo_geocoding">>}

\* C3 amended: with a Google Maps key configured the attempts of a call are
\* <primary> or <primary, secondary>, the secondary only after a failed
\* primary attempt of the same call; with no key configured the primary is
\* skipped and the attempts are <secondary>. No provider is attempted twice.
C3_FallbackChain ==
    Resolved =>
        /\ geo_maps_api_key =>
              /\ Attempts \in {<<"google_maps_geocoding">>,
                               <<"google_maps_geocoding", "open_meteo_geocoding">>}
              /\ SecondaryAsked <=> ~PrimaryResolves
        /\ ~geo_maps_api_key => Attempts = <<"open_meteo_geocoding">>

\* a call that fell back after the primary found no match
C3_Witness ==
    /\ Resolved /\ geo_maps_api_key
    /\ Attempts = <<"google_maps_geocoding", "open_meteo_geocoding">>
    /\ PrimaryAnswer.kind = "json" /\ PrimaryAnswer.data.status = "ZERO_RESULTS"

\* C5: every tool call returns a result with status success or error; no
\* exception escapes a tool.
C5_NoExceptionEscapes ==
    last.op # "none" =>
        /\ last.raised = ""
        /\ last.result.status \in {"success", "error"}

(***************************************************************************)
(* Properties of Load Dataset and Filter Dataset                           *)
(***************************************************************************)
Loaded   == last.op = "get_weather_forecast_dataframe"
Filtered == last.op = "filter_weather_dataframe_by_time"

Succeeded == last.raised = "" /\ last.result.status = "success"
Failed    == last.raised = "" /\ last.result.status = "error"

\* the context held a non-empty dataset when the last call began
HadDataset == "dataframe" \in DOMAIN pre /\ pre["dataframe"] # <<>>

\* a well-formed timestamp argument
IsTimestamp(s) == s # None /\ s # BadTime

\* a <= b for two timestamp strings
NotLater(a, b) ==
    \/ a[1] < b[1]
    \/ a[1] = b[1] /\ a[2] < b[2]
    \/ a[1] = b[1] /\ a[2] = b[2] /\ a[3] < b[3]
    \/ a[1] = b[1] /\ a[2] = b[2] /\ a[3] = b[3] /\ a[4] <= b[4]

\* C4: Load Dataset without latitude or longitude in the context, and Filter
\* Dataset without a dataset in the context, return a MissingPrerequisite
\* error, make no upstream call and leave the context unchanged.
C4_MissingPrerequisite ==
    /\ (Loaded /\ ~({"latitude", "longitude"} \subseteq DOMAIN pre)) =>
          /\ Failed
          /\ last.result.error_message = "Latitude or longitude not found in context"
          /\ last.calls = <<>>
          /\ state = pre
    /\ (Filtered /\ ~HadDataset) =>
          /\ Failed
          /\ last.result.error_message \in
                {"No DataFrame in context",
                 "DataFrame is empty or not found in context"}
          /\ last.calls = <<>>
          /\ state = pre

\* Load Dataset was called with good arguments before any address was resolved
C4_Witness ==
    /\ Loaded /\ "latitude" \notin DOMAIN pre
    /\ IsTimestamp(last.args.init_time)
    /\ Failed /\ last.calls = <<>>

\* the records of a dataset this record-predicate keeps
Kept(dataset, Keep(_)) == SelectSeq(dataset, Keep)

\* C6: Filter Dataset without endTime on a non-empty dataset leaves exactly
\* the records whose initTime has the month and day of the initTime argument
\* and hour 0, whatever the year; the result is a sub-sequence of the input.
C6_SingleDayFilter ==
    (Filtered /\ HadDataset /\ last.args.end_time = None
              /\ IsTimestamp(last.args.init_time)) =>
        LET Keep(r) == /\ r.init_time[2] = last.args.init_time[2]
                       /\ r.init_time[3] = last.args.init_time[3]
                       /\ r.init_time[4] = 0
        IN  /\ Succeeded
            /\ state["dataframe"] = Kept(pre["dataframe"], Keep)
            /\ Len(state["dataframe"]) <= Len(pre["dataframe"])

\* a single-day filter that kept records of two different years and dropped
\* a record of another day
C6_Witness ==
    /\ Filtered /\ HadDataset /\ last.args.end_time = None /\ Succeeded
    /\ \E i, j \in 1..Len(state["dataframe"]) :
          state["dataframe"][i].init_time[1] # state["dataframe"][j].init_time[1]
    /\ Len(state["dataframe"]) < Len(pre["dataframe"])

\* C7: Filter Dataset with endTime on a non-empty dataset leaves exactly the
\* records with initTimeArg <= initTime <= endTimeArg, both ends included.
C7_RangeFilter ==
    (Filtered /\ HadDataset /\ IsTimestamp(last.args.end_time)
              /\ IsTimestamp(last.args.init_time)) =>
        LET Keep(r) == /\ NotLater(last.args.init_time, r.init_time)
                       /\ NotLater(r.init_time, last.args.end_time)
        IN  /\ Succeeded
            /\ state["dataframe"] = Kept(pre["dataframe"], Keep)

\* a range filter that kept a record on each of its two boundaries and
\* dropped a record outside
C7_Witness ==
    /\ Filtered /\ HadDataset /\ Succeeded
    /\ IsTimestamp(last.args.end_time)
    /\ last.args.init_time # last.args.end_time
    /\ \E i \in 1..Len(state["dataframe"]) :
          state["dataframe"][i].init_time = last.args.init_time
    /\ \E i \in 1..Len(state["dataframe"]) :
          state["dataframe"][i].init_time = last.args.end_time
    /\ Len(state["dataframe"]) < Len(pre["dataframe"])

\* C8: a Filter Dataset call on a non-empty dataset that matches no record
\* returns success with zero rows and leaves the empty dataset in the
\* context; no Filter Dataset call on an empty dataset brings records back.
C8_ZeroMatchNotRestored ==
    /\ (Filtered /\ HadDataset /\ Succeeded /\ last.result.report.rows = 0) =>
          state["dataframe"] = <<>>
    /\ (Filtered /\ HadDataset /\ Succeeded /\ state["dataframe"] = <<>>) =>
          last.result.report.rows = 0
    /\ (Filtered /\ HadDataset /\ IsTimestamp(last.args.init_time)
                 /\ last.args.end_time = None
                 /\ \A i \in 1..Len(pre["dataframe"]) :
                       pre["dataframe"][i].init_time[3] # last.args.init_time[3]) =>
          Succeeded /\ last.result.report.rows = 0
    /\ (Filtered /\ "dataframe" \in DOMAIN pre /\ pre["dataframe"] = <<>>) =>
          state["dataframe"] = <<>>

\* a filter that matched none of the records of a non-empty dataset
C8_Witness ==
    /\ Filtered /\ HadDataset /\ Succeeded
    /\ last.result.report.rows = 0
    /\ last.result.report.original > 0
    /\ state["dataframe"] = <<>>

\* C9: Filter Dataset is idempotent: from every reachable context and for
\* every pair of arguments, a second call with the same arguments leaves the
\* dataset as the first call left it.
C9_FilterIdempotent ==
    \A init_time \in InitTimes, end_time \in EndTimes :
        LET once  == filter_weather_dataframe_by_time(state, init_time, end_time)
            twice == filter_weather_dataframe_by_time(once.state, init_time, end_time)
        IN  twice.state = once.state

\* a filter call that found a non-empty dataset already reduced to the
\* records it keeps
C9_Witness ==
    /\ Filtered /\ HadDataset /\ Succeeded
    /\ last.result.report.rows = last.result.report.original
    /\ Len(pre["dataframe"]) < Len(HourlyTimes)
    /\ state = pre

\* C10: after a successful Load Dataset the dataset is exactly the records
\* normalised from the rows this call fetched, initTime being the day of each
\* row's time; nothing of the dataset held before remains.
C10_LoadReplaces ==
    (Loaded /\ Succeeded) =>
        LET rows == last.calls[1].response.data.hourly.time
        IN  state["dataframe"] =
              [i \in 1..Len(rows) |->
                 [init_time |-> <<rows[i][1], rows[i][2], rows[i][3], 0>>,
                  time |-> rows[i]]]

\* a load that replaced a dataset holding a record the new one lacks
C10_Witness ==
    /\ Loaded /\ Succeeded /\ HadDataset
    /\ \E i \in 1..Len(pre["dataframe"]) :
          \A j \in 1..Len(state["dataframe"]) :
              pre["dataframe"][i] # state["dataframe"][j]

(***************************************************************************)
(* Properties of the weather request and of the stored dataset             *)
(***************************************************************************)
\* the last call was a Load Dataset call that sent its weather request
Requested == Loaded /\ last.calls # <<>>

\* the day of a timestamp string
DateOf(s) == <<s[1], s[2], s[3], 0>>

\* the date the request of the last Load Dataset call ends on: the date of
\* endTime, or of initTime when endTime is omitted
ResolvedEndDate ==
    IF last.args.end_time # None THEN DateOf(last.args.end_time)
    ELSE DateOf(last.args.init_time)

\* the current date as a date string
Today == astype_str(current_date)

\* C11: Load Dataset asks the forecast source if and only if the resolved end
\* date (date of endTime, or of initTime when endTime is omitted) is on or
\* after the current date, and the historical archive otherwise; a range that
\* starts in the past and ends today or later goes to the forecast source.
C11_SourceSelection ==
    Requested =>
        /\ last.calls[1].url \in {"forecast", "archive"}
        /\ last.calls[1].url = "forecast" <=> NotLater(Today, ResolvedEndDate)

\* a request for a range that starts before today and ends today
C11_Witness ==
    /\ Requested
    /\ last.args.end_time # None
    /\ ~NotLater(Today, DateOf(last.args.init_time))
    /\ ResolvedEndDate = Today
    /\ last.calls[1].url = "forecast"

\* the weather source answered the last Load Dataset call without any row
NoRows ==
    /\ Requested
    /\ last.calls[1].response.kind = "json"
    /\ \/ "hourly" \notin DOMAIN last.calls[1].response.data
       \/ last.calls[1].response.data.hourly.time = <<>>

\* C12: when the weather source returns no rows, Load Dataset returns the
\* empty-upstream-data error and does not write the context dataset.
C12_EmptyUpstream ==
    NoRows =>
        /\ Failed
        /\ last.result.error_message = "Weather API returned no data"
        /\ state = pre

\* the source answered with an empty hourly block while the context held a
\* dataset, and the dataset is still there
C12_Witness ==
    /\ NoRows
    /\ "hourly" \in DOMAIN last.calls[1].response.data
    /\ HadDataset
    /\ Failed
    /\ state["dataframe"] = pre["dataframe"]

\* C13: in every reachable context every record of the dataset has initTime
\* equal to the day of its own time field.
C13_InitTimeDerived ==
    "dataframe" \in DOMAIN state =>
        \A i \in 1..Len(state["dataframe"]) :
            state["dataframe"][i].init_time = DateOf(state["dataframe"][i].time)

\* a filtered dataset with a record whose time is not midnight and whose
\* initTime is not the initTime the filter was called with
C13_Witness ==
    /\ Filtered /\ Succeeded /\ HadDataset
    /\ IsTimestamp(last.args.init_time)
    /\ \E i \in 1..Len(state["dataframe"]) :
          /\ state["dataframe"][i].time[4] # 0
          /\ state["dataframe"][i].init_time # last.args.init_time

(***************************************************************************)
(* Properties of Render Charts and Summarize                               *)
(***************************************************************************)
Rendered   == last.op = "generate_weather_info_charts"
Summarized == last.op = "summarize_weather_from_plots"

\* the records of a dataset with time earlier than its minimum time + 7 days
WithinWindow(dataset) ==
    LET Earliest(m) == \A i \in 1..Len(dataset) : NotLater(m.time, dataset[i].time)
        Keep(r) == \E k \in 1..Len(dataset) :
                      /\ Earliest(dataset[k])
                      /\ to_datetime(r.time) < to_datetime(dataset[k].time) + 7 * 24
    IN  Kept(dataset, Keep)

\* the times drawn in the artifact saved under this name
Drawn(filename) == artifacts[filename].time

\* C14: Render Charts uses only the records with time earlier than the
\* minimum time of the dataset + 7 days: every artifact the call persisted
\* draws exactly those records, none at or beyond the cutoff, and the call
\* whose six saves went through returns success.
C14_ChartWindow ==
    (Rendered /\ HadDataset) =>
        LET kept == WithinWindow(pre["dataframe"])
        IN  /\ \A i \in 1..Len(last.calls) :
                  last.calls[i].response = "saved" =>
                      Drawn(last.calls[i].filename) =
                          [j \in 1..Len(kept) |-> to_datetime(kept[j].time)]
            /\ (/\ Len(last.calls) = 6
                /\ \A i \in 1..6 : last.calls[i].response = "saved") => Succeeded

\* a render of a dataset holding a record exactly 7 days after its first one
C14_Witness ==
    /\ Rendered /\ HadDataset /\ Succeeded
    /\ \E i, k \in 1..Len(pre["dataframe"]) :
          to_datetime(pre["dataframe"][i].time) =
              to_datetime(pre["dataframe"][k].time) + 7 * 24
    /\ Len(WithinWindow(pre["dataframe"])) = 2
    /\ Len(Drawn(<<"2m_temperature", "_plot.png">>)) = 2

\* C15: Render Charts on a context whose dataset is empty returns status
\* success with a "no charts generated" note, not an error, and persists no
\* artifact.
C15_EmptyDatasetSuccess ==
    (Rendered /\ "dataframe" \in DOMAIN pre /\ pre["dataframe"] = <<>>) =>
        /\ Succeeded
        /\ last.result.report = "DataFrame is empty, no charts generated."
        /\ last.calls = <<>>

\* the last Summarize call asked the generative model
ModelAsked ==
    \E i \in 1..Len(last.calls) : last.calls[i].to = "generate_content"

\* C17 as stated: Summarize on a context without chart references, as in a
\* fresh context, returns success with a placeholder message, not an error,
\* and makes no call to the generative model.
C17_PlaceholderWithoutCharts ==
    (Summarized /\ \/ "chart_filenames" \notin DOMAIN pre
                   \/ pre["chart_filenames"] = <<>>) =>
        /\ Succeeded
        /\ last.result.summary = "No charts were provided to generate a summary."
        /\ ~ModelAsked

\* C17, amended: Summarize on a context in which no chart references were
\* ever stored returns status error, makes no call at all and leaves the
\* context unchanged; stored chart references are never empty, so no
\* Summarize call returns the placeholder message.
C17_ErrorWithoutCharts ==
    /\ (Summarized /\ "chart_filenames" \notin DOMAIN pre) =>
          /\ Failed
          /\ last.result.error_message = "No chart filenames in context"
          /\ last.calls = <<>>
          /\ state = pre
    /\ "chart_filenames" \in DOMAIN state => state["chart_filenames"] # <<>>
    /\ (Summarized /\ Succeeded) =>
          last.result.summary # "No charts were provided to generate a summary."

\* Summarize called on a context that holds a dataset but no chart references
C17_Witness ==
    /\ Summarized
    /\ "chart_filenames" \notin DOMAIN pre
    /\ "dataframe" \in DOMAIN pre
    /\ Failed /\ last.calls = <<>>

(***************************************************************************)
(* Properties of the pipeline as a whole                                   *)
(***************************************************************************)
\* the last call was refused for a missing prerequisite
Rejected ==
    /\ Failed
    /\ last.calls = <<>>
    /\ last.result.error_message \in
          {"Latitude or longitude not found in context",
           "No DataFrame in context",
           "DataFrame is empty or not found in context",
           "No chart filenames in context"}

\* a weather request with good arguments and the answer it gets
GoodLoad(st) ==
    get_weather_forecast_dataframe(
        st, <<2025, 1, 13, 0>>, None, current_date,
        [kind |-> "json",
         data |-> [hourly |-> [columns |-> HourlyColumns,
                               time |-> <<<<2025, 1, 13, 0>>>>]]])

\* C18: no execution order is enforced beyond the prerequisite checks: each
\* of the five operations is refused exactly when its own prerequisite is
\* missing from the context, whatever was called before; Render Charts
\* directly after a successful Load Dataset, and Load Dataset after Render
\* Charts, are accepted.
C18_OrderFree ==
    /\ Resolved => ~Rejected
    /\ Loaded => (Rejected <=> ~({"latitude", "longitude"} \subseteq DOMAIN pre))
    /\ Filtered => (Rejected <=> ~HadDataset)
    /\ Rendered => (Rejected <=> ~HadDataset)
    /\ Summarized => (Rejected <=> "chart_filenames" \notin DOMAIN pre)
    /\ (Loaded /\ Succeeded) =>
          generate_weather_info_charts(state, artifacts, 6).result.status
              = "success"
    /\ Rendered => (Rejected \/ GoodLoad(state).result.status = "success")

\* a Load Dataset call that succeeded on a context already holding chart
\* references
C18_Witness ==
    /\ Loaded /\ Succeeded
    /\ "chart_filenames" \in DOMAIN pre
    /\ generate_weather_info_charts(state, artifacts, 6).result.status = "success"

\* this key has the same value, or is absent, in both contexts
SameEntry(key) ==
    /\ key \in DOMAIN state <=> key \in DOMAIN pre
    /\ key \in DOMAIN state => state[key] = pre[key]

\* C19: the coordinates in the context are those of the last successful
\* Resolve Location call, no other call changes them, and a Load Dataset
\* call queries the weather source with exactly the coordinates it finds.
C19_LoadUsesResolved ==
    /\ (Resolved /\ Succeeded) =>
          /\ state["latitude"] = last.result.latitude
          /\ state["longitude"] = last.result.longitude
    /\ ~(Resolved /\ Succeeded) =>
          SameEntry("latitude") /\ SameEntry("longitude")
    /\ Requested =>
          /\ last.calls[1].latitude = pre["latitude"]
          /\ last.calls[1].longitude = pre["longitude"]

\* a weather request sent for resolved coordinates after a dataset was loaded
\* and charts were rendered
C19_Witness ==
    /\ Requested
    /\ HadDataset /\ "chart_filenames" \in DOMAIN pre
    /\ pre["latitude"] = 19 /\ pre["longitude"] = 72
    /\ last.calls[1].latitude = 19 /\ last.calls[1].longitude = 72

(***************************************************************************)
(* Properties of several sessions on the shared toolkit instance           *)
(***************************************************************************)
\* the six artifact names, in the fixed field order
SixCharts ==
    <<<<"2m_temperature", "_plot.png">>,
      <<"total_precipitation_6hr", "_plot.png">>,
      <<"mean_sea_level_pressure", "_plot.png">>,
      <<"10m_u_component_of_wind", "_plot.png">>,
      <<"10m_v_component_of_wind", "_plot.png">>,
      <<"100_specific_humidity", "_plot.png">>>>

\* session s has a Render Charts call suspended at one of its saves
Rendering(s) == sessions[s].task.op = "generate_weather_info_charts"

\* C16: whenever chartRefs is populated it is the list of the six artifact
\* names in the fixed field order and every one of them is in the session's
\* artifact store; while a Render Charts call is still saving, chartRefs is
\* as it was when the call began.
C16_ChartRefsComplete ==
    \A s \in Sessions :
        LET st == sessions[s].state IN
        /\ "chart_filenames" \in DOMAIN st =>
              /\ st["chart_filenames"] = SixCharts
              /\ \A i \in 1..6 : SixCharts[i] \in DOMAIN sessions[s].artifacts
        /\ Rendering(s) =>
              /\ Len(sessions[s].task.filenames) < 6
              /\ st = sessions[s].task.began.state

\* session A holds its six chart references while session B has saved five
\* artifacts of its first Render Charts call and holds none yet
C16_Witness ==
    /\ "chart_filenames" \in DOMAIN sessions["A"].state
    /\ Rendering("B")
    /\ Len(sessions["B"].task.filenames) = 5
    /\ SixCharts[5] \in DOMAIN sessions["B"].artifacts
    /\ "chart_filenames" \notin DOMAIN sessions["B"].state

\* how many of these calls got this response
Answered(calls, response) ==
    Cardinality({i \in 1..Len(calls) : calls[i].response = response})

\* the call op, begun on this state and artifact store, run in one piece with
\* no other session around, its external calls answering as in calls
Alone(op, began, calls) ==
    IF op = "generate_weather_info_charts"
    THEN generate_weather_info_charts(began.state, began.artifacts,
                                      Answered(calls, "saved"))
    ELSE [artifacts |-> began.artifacts] @@
         summarize_weather_from_plots(
             began.state, began.artifacts,
             Answered(calls, "loaded") + Answered(calls, "None"),
             IF calls # <<>> /\ calls[Len(calls)].to = "generate_content"
             THEN calls[Len(calls)].response ELSE "raised")

\* C20: sessions share no state. A step of one session leaves every other
\* session's context, artifacts and suspended call as they were; every
\* artifact a Render Charts call has saved so far is the image of its own
\* session's dataset; and when a Render Charts or Summarize call returns,
\* its result, its calls and its session's context and artifacts are those
\* of the same call run alone in one piece on the session as the call found
\* it, however the other session's steps fell between its awaits.
C20_SessionsIsolated ==
    [][/\ \A s, t \in Sessions :
             s # t => sessions'[s] = sessions[s] \/ sessions'[t] = sessions[t]
       /\ \A s \in Sessions :
             (Rendering(s) /\ sessions'[s].task # NoTask) =>
                 sessions'[s].artifacts =
                     save_artifacts(sessions[s].task.began.artifacts,
                                    sessions[s].task.df,
                                    Len(sessions'[s].task.filenames))
       /\ \A s \in Sessions :
             (sessions[s].task # NoTask /\ sessions'[s].task = NoTask) =>
                 LET alone == Alone(last'.op, sessions[s].task.began, last'.calls)
                 IN  /\ last'.session = s
                     /\ last'.result = alone.result
                     /\ last'.calls = alone.calls
                     /\ sessions'[s].state = alone.state
                     /\ sessions'[s].artifacts = alone.artifacts]_vars

\* both sessions are in the middle of a Render Charts call, each has saved
\* artifacts, and the two stores hold different images under the same name
C20_Witness ==
    /\ Rendering("A") /\ Rendering("B")
    /\ Len(sessions["A"].task.filenames) >= 2
    /\ Len(sessions["B"].task.filenames) >= 2
    /\ sessions["A"].artifacts[SixCharts[1]] # sessions["B"].artifacts[SixCharts[1]]
    /\ Len(figures) = 2

(***************************************************************************)
(* Claims about the demand forecast tool (SpecForecast)                    *)
(***************************************************************************)
Forecasting == last.op = "get_demand_forecast"

\* the query was made and answered with rows
QueryAnswered == last.calls # <<>> /\ last.calls[1].response.kind = "rows"
QueryFailed   == last.calls # <<>> /\ last.calls[1].response.kind = "raised"

\* the rows the last call's query came back with
RowsReturned ==
    query_rows(last.calls[1].response.sums, last.args.history_days)

\* the model was fitted during the last call
Fitted == \E i \in DOMAIN last.calls : last.calls[i].api = "ExponentialSmoothing.fit"

\* the message of the error result the last call returned
Reported ==
    IF Forecasting /\ last.raised = "" /\ "error" \in DOMAIN last.result.text
    THEN last.result.text.error
    ELSE <<>>

Says(text) == Reported # <<>> /\ Reported[1] = text

InsufficientHistory ==
    Says("Insufficient data for forecast. Need at least 14 days, but found ")

\* C21: a forecast is rejected with InsufficientHistory exactly when its
\* query returned fewer than 14 rows, whatever history_days asked for (so
\* always when history_days is below 14): 13 rows are rejected, 14 rows are
\* fitted, and a rejected call never reaches the model fit.
C21_InsufficientHistory ==
    Forecasting =>
        /\ InsufficientHistory <=> (QueryAnswered /\ Len(RowsReturned) < 14)
        /\ InsufficientHistory => ~Fitted
        /\ (QueryAnswered /\ Len(RowsReturned) >= 14) => Fitted
        /\ (QueryAnswered /\ last.args.history_days < 14) => InsufficientHistory

C21_Witness ==
    /\ Forecasting
    /\ QueryAnswered
    /\ last.args.history_days = 365
    /\ Len(RowsReturned) = 13
    /\ InsufficientHistory
    /\ ~Fitted

\* the last call returned a forecast
ForecastMade ==
    /\ Forecasting
    /\ last.raised = ""
    /\ "demand_forecast" \in DOMAIN last.result.text

\* a DATE as a count of days, and back
DayNumber(date) == DaysFromCivil(date[1], date[2], date[3])
DateOfDay(n) == LET c == CivilFromDays(n) IN <<c[1], c[2], c[3], 0>>

\* the day of the newest row the query returned
LastDay ==
    CHOOSE d \in {DayNumber(RowsReturned[k].date) : k \in DOMAIN RowsReturned} :
        \A k \in DOMAIN RowsReturned : DayNumber(RowsReturned[k].date) <= d

\* C22: a successful forecast of period p >= 1 over a history whose last date
\* is d has exactly p points, dated d+1, d+2, ..., d+p in this order, and its
\* based_on_last_date is d.
C22_ConsecutiveDates ==
    (ForecastMade /\ last.args.period >= 1) =>
        LET points == last.result.text.demand_forecast
        IN  /\ Len(points) = last.args.period
            /\ \A i \in 1..last.args.period :
                   points[i].date = DateOfDay(LastDay + i)
            /\ last.result.text.forecast_parameters.based_on_last_date
                   = DateOfDay(LastDay)

C22_Witness ==
    /\ ForecastMade
    /\ last.args.period = 5
    /\ last.result.text.forecast_parameters.based_on_last_date = <<2024, 6, 10, 0>>
    /\ Len(last.result.text.demand_forecast) = 5
    /\ last.result.text.demand_forecast[1].date = <<2024, 6, 11, 0>>
    /\ last.result.text.demand_forecast[5].date = <<2024, 6, 15, 0>>

\* the last call returned an error result
ErrorReturned ==
    /\ Forecasting
    /\ last.raised = ""
    /\ DOMAIN last.result.text = {"error"}

\* C23: get_demand_forecast never raises to its caller: whatever its
\* arguments, and whether the query fails, the client is None, the data is
\* insufficient or the model fit fails, it returns the forecast or an error
\* result.
C23_NeverRaises ==
    Forecasting =>
        /\ last.raised = ""
        /\ ForecastMade \/ ErrorReturned
        /\ (~bigquery_client \/ QueryFailed \/ ~Fitted) => ErrorReturned

C23_Witness ==
    /\ ErrorReturned
    /\ Fitted
    /\ Says("An unexpected error occurred: ")

\* the kind the caller reads from an error result
ErrorKind ==
    CASE Says("Failed to query BigQuery. Error: ") -> "DataSourceUnavailable"
      [] InsufficientHistory -> "InsufficientHistory"
      [] Says("An unexpected error occurred: ") -> "UnexpectedFailure"
      [] OTHER -> "none"

\* what went wrong in the last call
Occurred ==
    CASE ~bigquery_client \/ QueryFailed -> "DataSourceUnavailable"
      [] QueryAnswered /\ Len(RowsReturned) < 14 -> "InsufficientHistory"
      [] OTHER -> "UnexpectedFailure"

\* C24: a failed query, an insufficient history and any other failure are
\* three kinds of error result the caller can tell apart, and a failed query
\* is reported as such without the row count being looked at.
C24_ThreeKinds ==
    ErrorReturned => ErrorKind = Occurred

ScopeArguments == {"state", "region", "power_supplier"}

\* the scope arguments of the last call that are not None
NonNullScope == {k \in ScopeArguments : last.args[k] # None}

\* the scope arguments the last call's query has an equality predicate for
ScopePredicates ==
    LET predicate == [state |-> "state = @state",
                      region |-> "region = @region",
                      power_supplier |-> "power_supplier = @power_supplier"]
        clauses == last.calls[1].where_clauses
    IN  {k \in ScopeArguments : \E i \in DOMAIN clauses : clauses[i] = predicate[k]}

\* the scope the forecast result names
National ==
    "str" \in DOMAIN last.result.text.forecast_parameters.scope
ScopeListed ==
    IF National THEN {}
    ELSE DOMAIN last.result.text.forecast_parameters.scope.dict

\* C25: the query has an equality predicate for exactly the scope arguments
\* that are not null (an empty string counts as not null), the result's scope
\* lists exactly those, and it is "National" exactly when the query has no
\* scope predicate.
C25_ScopeMatchesPredicates ==
    (Forecasting /\ last.calls # <<>>) =>
        /\ ScopePredicates = NonNullScope
        /\ ForecastMade =>
              /\ ScopeListed = NonNullScope
              /\ National <=> ScopePredicates = {}

(***************************************************************************)
(* Frame effects of the pipeline (Spec)                                    *)
(***************************************************************************)
\* C26: a call that returns status error leaves the context exactly as it
\* was: a failed Resolve Location keeps the stored coordinates, a failed
\* Load Dataset or Filter Dataset the dataset, a failed Render Charts the
\* chart references.
C26_ErrorLeavesContext ==
    Failed => state = pre

C26_Witness ==
    /\ Loaded
    /\ Failed
    /\ last.calls # <<>>
    /\ HadDataset
    /\ "chart_filenames" \in DOMAIN pre
    /\ state = pre

\* the context entry is the same before and after the step
Untouched(key) ==
    /\ key \in DOMAIN state' <=> key \in DOMAIN state
    /\ key \in DOMAIN state => state'[key] = state[key]

\* C27: Resolve Location, Load Dataset and Filter Dataset never change the
\* chart references or the artifact store; Render Charts and Summarize never
\* change the dataset or the coordinates; so a Summarize that follows a
\* render and later loads or filters is accepted and is given the charts
\* that are stored, those of the earlier dataset.
C27_FrameEffects ==
    [][/\ last'.op \in {"get_lat_long_from_address",
                        "get_weather_forecast_dataframe",
                        "filter_weather_dataframe_by_time"} =>
              /\ artifacts' = artifacts
              /\ Untouched("chart_filenames")
       /\ last'.op \in {"generate_weather_info_charts",
                        "summarize_weather_from_plots"} =>
              /\ Untouched("dataframe")
              /\ Untouched("latitude")
              /\ Untouched("longitude")
       /\ (/\ last'.op = "summarize_weather_from_plots"
           /\ "chart_filenames" \in DOMAIN state) =>
              /\ last'.calls # <<>>
              /\ \A i \in 1..Len(last'.calls) :
                    last'.calls[i].to = "generate_content" =>
                        last'.calls[i].contents =
                            [j \in 1..Len(state["chart_filenames"]) |->
                                artifacts[state["chart_filenames"][j]]]
      ]_vars

\* a summary of charts that do not show the dataset now in the context
C27_Witness ==
    /\ Summarized
    /\ Succeeded
    /\ "dataframe" \in DOMAIN state
    /\ state["dataframe"] # <<>>
    /\ LET shown == WithinWindow(state["dataframe"])
       IN  Drawn(SixCharts[1]) # [j \in 1..Len(shown) |-> to_datetime(shown[j].time)]

\* the dataset was empty when the last call began
WasEmpty == "dataframe" \in DOMAIN pre /\ pre["dataframe"] = <<>>

\* C28: once the dataset is empty, every Filter Dataset and Render Charts
\* returns status error, and the dataset stays empty after every call that
\* is not a successful Load Dataset.
C28_EmptyStaysEmpty ==
    WasEmpty =>
        /\ (Filtered \/ Rendered) => Failed
        /\ ~(Loaded /\ Succeeded) =>
              /\ "dataframe" \in DOMAIN state
              /\ state["dataframe"] = <<>>

C28_Witness ==
    /\ WasEmpty
    /\ Rendered
    /\ Failed
    /\ state["dataframe"] = <<>>

(***************************************************************************)
(* The range filter and the days of its arguments (Spec)                   *)
(***************************************************************************)
\* range arguments with init_time not later than end_time
RangeArguments ==
    {<<<<2025, 1, 13, 0>>, <<2025, 1, 20, 12>>>>,
     <<<<2025, 1, 13, 12>>, <<2025, 1, 20, 12>>>>,
     <<<<2025, 1, 13, 0>>, <<2025, 1, 13, 18>>>>,
     <<<<2025, 1, 13, 12>>, <<2025, 1, 13, 18>>>>,
     <<<<2025, 1, 20, 6>>, <<2025, 1, 20, 12>>>>}

\* the record's init_time lies on the calendar day of the timestamp
OnDayOf(r, t) == DateOf(r.init_time) = DateOf(t)

Retained(r, kept) == \E j \in 1..Len(kept) : kept[j].time = r.time

\* what the claim says of a range filter that kept `kept` of dataset
RetainedByDay(dataset, a, b, kept) ==
    \A i \in 1..Len(dataset) :
        /\ OnDayOf(dataset[i], a) => (Retained(dataset[i], kept) <=> a[4] = 0)
        /\ OnDayOf(dataset[i], b) => Retained(dataset[i], kept)

\* the same, with the end day kept only when init_time is not past its start
RetainedByBounds(dataset, a, b, kept) ==
    \A i \in 1..Len(dataset) :
        /\ Retained(dataset[i], kept) <=>
              /\ NotLater(a, dataset[i].init_time)
              /\ NotLater(dataset[i].init_time, b)
        /\ OnDayOf(dataset[i], a) => (Retained(dataset[i], kept) <=> a[4] = 0)
        /\ OnDayOf(dataset[i], b) =>
              (Retained(dataset[i], kept) <=> NotLater(a, DateOf(b)))

\* the answer of the weather service with every column, for these arguments
FullAnswer(a, b) ==
    CHOOSE r \in OpenMeteoResponses(a, b) :
        /\ r.kind = "json"
        /\ "hourly" \in DOMAIN r.data
        /\ r.data.hourly.columns = HourlyColumns
        /\ r.data.hourly.time # <<>>

\* Load Dataset(a, b) followed by Filter Dataset(a, b) keeps everything when
\* a is at midnight, and otherwise everything but the records of a's day
LoadThenFilter(a, b) ==
    LET loaded == get_weather_forecast_dataframe(state, a, b, current_date,
                                                 FullAnswer(a, b))
        kept   == filter_weather_dataframe_by_time(loaded.state, a, b)
        NotOnDay(r) == ~OnDayOf(r, a)
    IN  /\ loaded.result.status = "success"
        /\ kept.result.status = "success"
        /\ a[4] = 0 <=> kept.state["dataframe"] = loaded.state["dataframe"]
        /\ a[4] # 0 => kept.state["dataframe"]
                          = SelectSeq(loaded.state["dataframe"], NotOnDay)

\* the dataset a filter can be applied to
HasDataset == "dataframe" \in DOMAIN state /\ state["dataframe"] # <<>>

\* the last call was a range filter of a dataset that went through
RangeFiltered ==
    /\ Filtered /\ HadDataset /\ Succeeded
    /\ IsTimestamp(last.args.init_time)
    /\ IsTimestamp(last.args.end_time)

\* C29 (as stated): a range filter compares the day-truncated init_time of
\* each record with the un-truncated arguments: a record on the day of the
\* init_time argument is retained iff that argument is at midnight, records
\* on the day of the end_time argument are always retained, and Load(a, b)
\* then Filter(a, b) keeps everything exactly when a is at midnight and
\* otherwise drops the records of a's day.
C29_RangeDays ==
    /\ (RangeFiltered /\ NotLater(last.args.init_time, last.args.end_time)) =>
           RetainedByDay(pre["dataframe"], last.args.init_time,
                         last.args.end_time, state["dataframe"])
    /\ \A ab \in RangeArguments :
         /\ HasDataset =>
               RetainedByDay(state["dataframe"], ab[1], ab[2],
                   filter_weather_dataframe_by_time(state, ab[1], ab[2]).state["dataframe"])
         /\ {"latitude", "longitude"} \subseteq DOMAIN state =>
               LoadThenFilter(ab[1], ab[2])

\* C29 (amended): a range filter retains exactly the records whose
\* day-truncated init_time lies between the un-truncated arguments; for
\* init_time <= end_time a record on the day of the init_time argument is
\* retained iff that argument is at midnight, a record on the day of the
\* end_time argument iff the init_time argument is not later than the start
\* of that day, and Load(a, b) then Filter(a, b) keeps everything exactly
\* when a is at midnight and otherwise drops the records of a's day.
C29_RangeBounds ==
    /\ RangeFiltered =>
           \A i \in 1..Len(pre["dataframe"]) :
               Retained(pre["dataframe"][i], state["dataframe"]) <=>
                   /\ NotLater(last.args.init_time, pre["dataframe"][i].init_time)
                   /\ NotLater(pre["dataframe"][i].init_time, last.args.end_time)
    /\ (RangeFiltered /\ NotLater(last.args.init_time, last.args.end_time)) =>
           RetainedByBounds(pre["dataframe"], last.args.init_time,
                            last.args.end_time, state["dataframe"])
    /\ \A ab \in RangeArguments :
         /\ HasDataset =>
               RetainedByBounds(state["dataframe"], ab[1], ab[2],
                   filter_weather_dataframe_by_time(state, ab[1], ab[2]).state["dataframe"])
         /\ {"latitude", "longitude"} \subseteq DOMAIN state =>
               LoadThenFilter(ab[1], ab[2])

\* a range filter from noon of the first day: the records of that day are
\* dropped, those of the end day kept
C29_Witness ==
    /\ RangeFiltered
    /\ last.args.init_time = <<2025, 1, 13, 12>>
    /\ last.args.end_time = <<2025, 1, 20, 12>>
    /\ \E i \in 1..Len(pre["dataframe"]) :
           OnDayOf(pre["dataframe"][i], last.args.init_time)
    /\ \E i \in 1..Len(pre["dataframe"]) :
           OnDayOf(pre["dataframe"][i], last.args.end_time)
    /\ state["dataframe"] # <<>>
    /\ \A j \in 1..Len(state["dataframe"]) :
           OnDayOf(state["dataframe"][j], last.args.end_time)

(***************************************************************************)
(* Render Charts and the dataset it read (SpecInterleaved)                 *)
(***************************************************************************)
\* the times of the records Render Charts draws of a dataset
TimesShown(dataset) ==
    LET kept == WithinWindow(dataset)
    IN  [j \in 1..Len(kept) |-> to_datetime(kept[j].time)]

\* C30: Render Charts reads the dataset once, before its first await: with
\* Load Dataset and Filter Dataset calls of the same session running between
\* its saves, every artifact the call saves is drawn from the dataset the
\* context held when the call began, whatever the context holds by then.
C30_DatasetReadOnce ==
    LET s == Interleaved
        arts == sessions[s].artifacts
    IN  /\ Rendering(s) =>
              \A i \in 1..Len(sessions[s].task.filenames) :
                  arts[sessions[s].task.filenames[i]].time
                      = TimesShown(sessions[s].task.began.state["dataframe"])
        /\ (Rendered /\ Succeeded) =>
              /\ sessions[s].state["chart_filenames"] = SixCharts
              /\ \A i \in 1..6 :
                    arts[SixCharts[i]].time
                        = TimesShown(last.began.state["dataframe"])

\* a render that returned six charts of a dataset the context no longer holds
C30_Witness ==
    LET s == Interleaved
    IN  /\ Rendered /\ Succeeded
        /\ sessions[s].state["dataframe"] # last.began.state["dataframe"]
        /\ \A i \in 1..6 :
              sessions[s].artifacts[SixCharts[i]].time
                  # TimesShown(sessions[s].state["dataframe"])

====
